---- MODULE Spec2Model ----
(***************************************************************************)
(* LiteLedger (jjmbeba/lite-ledger): the storage package (row codec and    *)
(* append-only table files, src/storage/storage.go) and the engine         *)
(* (in-memory hash index, metadata registry, replay, CRUD operations,      *)
(* src/engine/engine.go).                                                  *)
(*                                                                         *)
(* A file is a sequence of bytes; a byte is a one-character string.  A     *)
(* field (a Go string) is a sequence of bytes, a row a sequence of fields. *)
(* Joining, splitting, line scanning and offsets are computed on the bytes *)
(* as the Go code computes them.                                           *)
(***************************************************************************)
EXTENDS Integers, Sequences, FiniteSets, TLC

VARIABLES
    files,      \* data/<table>.db on disk: table name -> bytes (DOMAIN = files that exist)
    metaFile,   \* data/metadata.json on disk: table name -> column declarations
    Tables,     \* Database.Tables: table name -> column declarations
    Indexes,    \* Database.Indexes: table name -> (key -> offset)
    mu,         \* Database.mu: 0 when free, else the caller holding the write lock
    storageMutex, \* storage.storageMutex: per caller "" (not held), "W" (Lock) or "R" (RLock)
    pc,         \* per caller: where it stands in its current call
    call,       \* per caller: the current (or last) call and its local variables
    ret,        \* per caller: what the call returned, until the result is taken
    written,    \* history: per table, the rows AppendRow wrote and the offsets it returned
    deleted     \* history: <<table, key>> whose delete returned, no insert/update of it started since

vars == <<files, metaFile, Tables, Indexes, mu, storageMutex, pc, call, ret, written, deleted>>

(***************************************************************************)
(* Bounds of the model.                                                    *)
(***************************************************************************)
NumProcs == 2          \* concurrent callers
MaxAppends == 3        \* records appended to the logs in one run

Procs == 1..NumProcs

(***************************************************************************)
(* Bytes.                                                                  *)
(***************************************************************************)
Pipe == "|"
NL == "\n"
CR == "\r"
Space == " "

(* strings.Join(data, sep) for a one-byte separator.                       *)
RECURSIVE Join(_, _)
Join(fs, sep) ==
    IF fs = <<>> THEN <<>>
    ELSE IF Len(fs) = 1 THEN fs[1]
    ELSE fs[1] \o <<sep>> \o Join(Tail(fs), sep)

(* Index of the first occurrence of byte c in s, 0 when there is none.     *)
IndexByte(s, c) ==
    IF \E i \in 1..Len(s) : s[i] = c
    THEN CHOOSE i \in 1..Len(s) : s[i] = c /\ \A j \in 1..(i - 1) : s[j] # c
    ELSE 0

(* strings.Split(s, sep) for a one-byte separator: always at least one     *)
(* part, the empty string splits into one empty part.                      *)
RECURSIVE Split(_, _)
Split(s, sep) ==
    LET i == IndexByte(s, sep)
    IN  IF i = 0 THEN <<s>>
        ELSE <<SubSeq(s, 1, i - 1)>> \o Split(SubSeq(s, i + 1, Len(s)), sep)

(* strings.SplitN(s, sep, 2): cut at the first separator only.             *)
SplitN2(s, sep) ==
    LET i == IndexByte(s, sep)
    IN  IF i = 0 THEN <<s>>
        ELSE <<SubSeq(s, 1, i - 1), SubSeq(s, i + 1, Len(s))>>

(***************************************************************************)
(* calculateChecksum: hex(SHA-256(join(data, "|"))).  SHA-256 is modelled  *)
(* as a collision-free digest of ChecksumLen hex digits: every byte of the *)
(* content gives one non-zero hex digit, zero-padded to the digest length. *)
(* It is collision-free for contents of at most ChecksumLen bytes, which   *)
(* the model's inputs stay below.                                          *)
(***************************************************************************)
ChecksumLen == 64

HexDigit(c) ==
    CASE c = "a" -> "a"
      [] c = "b" -> "b"
      [] c = "x" -> "c"
      [] c = "y" -> "d"
      [] c = "A" -> "e"
      [] c = "0" -> "1"
      [] c = "1" -> "2"
      [] c = "2" -> "3"
      [] c = Pipe -> "4"
      [] c = NL -> "5"
      [] c = CR -> "6"
      [] c = Space -> "7"
      [] OTHER -> "f"

Sha256Hex(content) ==
    [i \in 1..ChecksumLen |->
        IF i <= Len(content) THEN HexDigit(content[i]) ELSE "0"]

(* calculateChecksum hashing nothing: the content never reaches the hash.  *)
calculateChecksum_OfNothing(data) == Sha256Hex(<<>>)

calculateChecksum(data) == Sha256Hex(Join(data, Pipe))

(* AppendRow lines 44-60 writing the row without its checksum.             *)
EncodeLine_NoChecksum(data) == Join(data, Pipe) \o <<NL>>

(* AppendRow lines 44-60: the line written for a row.                      *)
EncodeLine(data) ==
    Join(Append(data, calculateChecksum(data)), Pipe) \o <<NL>>

(***************************************************************************)
(* Results.  err is "" on success, else the error class.                   *)
(***************************************************************************)
Ok(v) == [err |-> "", val |-> v, off |-> 0]
OkOffset(o) == [err |-> "", val |-> <<>>, off |-> o]
Err(e) == [err |-> e, val |-> <<>>, off |-> 0]
NoResult == Err("pending")

(***************************************************************************)
(* storage.AppendRow: the file after the append (created when missing) and *)
(* the offset returned, the size of the file before the write.             *)
(***************************************************************************)
FileBytes(fs, t) == IF t \in DOMAIN fs THEN fs[t] ELSE <<>>

(* The offset counted from 1 instead of 0.                                 *)
AppendOffset_FromOne(fs, t) == Len(FileBytes(fs, t)) + 1

AppendOffset(fs, t) == Len(FileBytes(fs, t))

(* AppendRow opening the file with O_TRUNC instead of O_APPEND: the new     *)
(* line replaces the content.                                              *)
AppendRow_Truncating(fs, t, data) ==
    [x \in DOMAIN fs \cup {t} |-> IF x = t THEN EncodeLine(data) ELSE fs[x]]

AppendRow(fs, t, data) ==
    [x \in DOMAIN fs \cup {t} |->
        IF x = t THEN FileBytes(fs, t) \o EncodeLine(data) ELSE fs[x]]

(***************************************************************************)
(* storage.ReadRow: seek, read one terminated line, split, verify.         *)
(***************************************************************************)
ReadRow(fs, t, offset) ==
    IF t \notin DOMAIN fs THEN Err("IOError")
    ELSE
      LET rest == SubSeq(fs[t], offset + 1, Len(fs[t]))
          n == IndexByte(rest, NL)
      IN  IF n = 0 THEN Err("IOError")
          ELSE
            LET line == SubSeq(rest, 1, n - 1)
                parts == Split(line, Pipe)
            IN  IF Len(parts) < 2 THEN Err("CorruptDataError")
                ELSE
                  LET storedChecksum == parts[Len(parts)]
                      dataParts == SubSeq(parts, 1, Len(parts) - 1)
                  IN  IF storedChecksum # calculateChecksum(dataParts)
                      THEN Err("IntegrityError")
                      ELSE Ok(dataParts)

(* storage.CreateTableFile opening with O_CREATE|O_TRUNC (os.Create): no   *)
(* error, and an existing file is emptied.                                 *)
CreateTableFile_Truncating(fs, t) ==
    [err |-> "", files |-> [u \in DOMAIN fs \cup {t} |-> IF u = t THEN <<>> ELSE fs[u]]]

(* storage.CreateTableFile: O_CREATE|O_EXCL: an existing file is an error  *)
(* and is left as it is, a missing one is created empty.                   *)
CreateTableFile(fs, t) ==
    IF t \in DOMAIN fs
    THEN [err |-> "AlreadyExistsError", files |-> fs]
    ELSE [err |-> "",
          files |-> [x \in DOMAIN fs \cup {t} |-> IF x = t THEN <<>> ELSE fs[x]]]

(***************************************************************************)
(* bufio.Scanner with the default split function (bufio.ScanLines): the    *)
(* lines of a file, each without its end-of-line marker.  The marker is    *)
(* one optional carriage return followed by one newline; a non-empty last  *)
(* line without newline is returned as well.  (Lines stay far below the    *)
(* scanner's 64 KiB token limit in this model.)                            *)
(***************************************************************************)
dropCR(data) ==
    IF Len(data) > 0 /\ data[Len(data)] = CR
    THEN SubSeq(data, 1, Len(data) - 1)
    ELSE data

RECURSIVE ScanLines(_)
ScanLines(data) ==
    IF data = <<>> THEN <<>>
    ELSE
      LET i == IndexByte(data, NL)
      IN  IF i > 0
          THEN <<dropCR(SubSeq(data, 1, i - 1))>>
                   \o ScanLines(SubSeq(data, i + 1, Len(data)))
          ELSE <<dropCR(data)>>

(***************************************************************************)
(* Index: a Go map from key to offset.                                     *)
(***************************************************************************)
EmptyIndex == [k \in {} |-> 0]

MapSet(m, k, v) == [x \in DOMAIN m \cup {k} |-> IF x = k THEN v ELSE m[x]]

(* delete(map, key) left out: the entry stays.                             *)
MapDelete_Keeps(m, k) == m

MapDelete(m, k) == [x \in DOMAIN m \ {k} |-> m[x]]

Flag1 == <<"1">>
Flag0 == <<"0">>

(* LoadIndex lines 235-255: the scan loop, over the scanner's lines.       *)
RECURSIVE LoadIndexLoop(_, _, _)
LoadIndexLoop(lines, index, offset) ==
    IF lines = <<>> THEN index
    ELSE
      LET line == Head(lines)
          lineLen == Len(line) + 1
          parts == Split(line, Pipe)
      IN  IF Len(parts) < 2
          THEN LoadIndexLoop(Tail(lines), index, offset + lineLen)
          ELSE
            LET id == parts[1]
                activeFlag == parts[2]
                next == IF activeFlag = Flag1 THEN MapSet(index, id, offset)
                        ELSE IF activeFlag = Flag0 THEN MapDelete(index, id)
                        ELSE index
            IN  LoadIndexLoop(Tail(lines), next, offset + lineLen)

(* RebuildIndex lines 288-309.                                             *)
RECURSIVE RebuildIndexLoop(_, _, _)
RebuildIndexLoop(lines, index, offset) ==
    IF lines = <<>> THEN index
    ELSE
      LET line == Head(lines)
          lineLen == Len(line) + 1
          parts == Split(line, Pipe)
          next == IF Len(parts) >= 2
                  THEN IF parts[2] = Flag1 THEN MapSet(index, parts[1], offset)
                       ELSE IF parts[2] = Flag0 THEN MapDelete(index, parts[1])
                       ELSE index
                  ELSE index
      IN  RebuildIndexLoop(Tail(lines), next, offset + lineLen)

(* CreateTable lines 155-169: the orphan-recovery loop.                    *)
RECURSIVE CreateTableLoop(_, _, _)
CreateTableLoop(lines, index, offset) ==
    IF lines = <<>> THEN index
    ELSE
      LET line == Head(lines)
          lineLen == Len(line) + 1
          parts == Split(line, Pipe)
          next == IF Len(parts) >= 2
                  THEN IF parts[2] = Flag1 THEN MapSet(index, parts[1], offset)
                       ELSE IF parts[2] = Flag0 THEN MapDelete(index, parts[1])
                       ELSE index
                  ELSE index
      IN  CreateTableLoop(Tail(lines), next, offset + lineLen)

(* LoadIndex as a whole: keeps the table's existing Index when there is    *)
(* one, returns without error when the file cannot be opened.              *)
LoadIndex(idxs, fs, t) ==
    LET start == IF t \in DOMAIN idxs THEN idxs[t] ELSE EmptyIndex
        built == IF t \in DOMAIN fs
                 THEN LoadIndexLoop(ScanLines(fs[t]), start, 0)
                 ELSE start
    IN  MapSet(idxs, t, built)

(* RebuildIndex without the clearing of line 270: the replay goes on from  *)
(* the Index the table has.                                                *)
RebuildIndex_KeepsIndex(idxs, fs, t) ==
    LET start == IF t \in DOMAIN idxs THEN idxs[t] ELSE EmptyIndex
        built == IF t \in DOMAIN fs
                 THEN RebuildIndexLoop(ScanLines(fs[t]), start, 0)
                 ELSE start
    IN  MapSet(idxs, t, built)

(* RebuildIndex as a whole: clears the table's Index first.                *)
RebuildIndex(idxs, fs, t) ==
    LET built == IF t \in DOMAIN fs
                 THEN RebuildIndexLoop(ScanLines(fs[t]), EmptyIndex, 0)
                 ELSE EmptyIndex
    IN  MapSet(idxs, t, built)

(***************************************************************************)
(* Column resolution (UpdateRow lines 513-526, SelectByColumn 568-583):    *)
(* the Go row index of a column name, -1 when no declared column matches.  *)
(***************************************************************************)
ToLower(c) ==
    CASE c = "A" -> "a"
      [] c = "B" -> "b"
      [] c = "K" -> "k"
      [] c = "V" -> "v"
      [] OTHER -> c

EqualFold(a, b) ==
    /\ Len(a) = Len(b)
    /\ \A i \in 1..Len(a) : ToLower(a[i]) = ToLower(b[i])

ColumnName(colDef) == SplitN2(colDef, Space)[1]

ColumnIndex(columns, colName) ==
    LET hits == {i \in 1..Len(columns) : EqualFold(ColumnName(columns[i]), colName)}
    IN  IF hits = {} THEN -1
        ELSE LET i == CHOOSE i \in hits : \A j \in hits : i <= j
             IN  IF i = 1 THEN 0 ELSE i

(***************************************************************************)
(* FindByID lines 341-347 cutting one field too many.                      *)
(***************************************************************************)
TruncateRow_OneShort(row, metaExists, columns) ==
    IF metaExists /\ Len(row) > Len(columns) + 1
    THEN SubSeq(row, 1, Len(columns) + 1)
    ELSE row

(***************************************************************************)
(* FindByID lines 341-347: cut a row that is longer than len(Columns)+2.   *)
(***************************************************************************)
TruncateRow(row, metaExists, columns) ==
    IF metaExists /\ Len(row) > Len(columns) + 2
    THEN SubSeq(row, 1, Len(columns) + 2)
    ELSE row

(***************************************************************************)
(* UpdateRow lines 486-537: the new row, or the error.  updates is the map *)
(* as a sequence of <<column name, value>> in the order the range loop     *)
(* visits it.                                                              *)
(***************************************************************************)
RECURSIVE ApplyUpdates(_, _, _)
ApplyUpdates(newRow, columns, updates) ==
    IF updates = <<>> THEN Ok(newRow)
    ELSE
      LET colIndex == ColumnIndex(columns, Head(updates)[1])
      IN  IF colIndex = -1 THEN Err("ValidationError")
          ELSE IF colIndex >= Len(newRow) THEN Err("ValidationError")
          ELSE ApplyUpdates([newRow EXCEPT ![colIndex + 1] = Head(updates)[2]],
                            columns, Tail(updates))

(* UpdateRow lines 486-537 without line 504: the active flag of the        *)
(* current row is kept.                                                    *)
PrepareUpdate_KeepsFlag(currentRow, columns, updates) ==
    LET expectedLen == Len(columns) + 1
    IN  IF Len(currentRow) < expectedLen THEN Err("CorruptDataError")
        ELSE IF expectedLen < 2 THEN Err("panic")
        ELSE ApplyUpdates(SubSeq(currentRow, 1, expectedLen), columns, updates)

PrepareUpdate(currentRow, columns, updates) ==
    LET expectedLen == Len(columns) + 1
    IN  IF Len(currentRow) < expectedLen THEN Err("CorruptDataError")
        ELSE IF expectedLen < 2 THEN Err("panic")
        ELSE ApplyUpdates([SubSeq(currentRow, 1, expectedLen) EXCEPT ![2] = Flag1],
                          columns, updates)

(* DeleteRow lines 448-450: the tombstone of a row.                        *)
Tombstone_KeyOnly(currentRow) == <<currentRow[1], Flag0>>

Tombstone(currentRow) == [currentRow EXCEPT ![2] = Flag0]

(* SelectAll lines 367-376: the Index's offsets in ascending order.        *)
RECURSIVE SortedOffsets(_)
SortedOffsets(offs) ==
    IF offs = {} THEN <<>>
    ELSE LET m == CHOOSE m \in offs : \A o \in offs : m <= o
         IN  <<m>> \o SortedOffsets(offs \ {m})

IndexOffsets(index) == {index[k] : k \in DOMAIN index}

(***************************************************************************)
(* Recover lines 98-124 (with LoadMetadata lines 69-95): the registry is   *)
(* read from the metadata file, every registered table gets an empty Index *)
(* and then LoadIndex.                                                     *)
(***************************************************************************)
RecoverIndexes(meta, fs) ==
    [t \in DOMAIN meta |->
        LoadIndex([x \in DOMAIN meta |-> EmptyIndex], fs, t)[t]]

(***************************************************************************)
(* Callers.                                                                *)
(***************************************************************************)
NoCall ==
    [op |-> "none", t |-> "", id |-> <<>>, row |-> <<>>, cols |-> <<>>,
     updates |-> <<>>, offset |-> 0, metaExists |-> FALSE, metadata |-> <<>>,
     cur |-> <<>>, records |-> <<>>, rows |-> <<>>]

CallCreateTable(t, cols) == [NoCall EXCEPT !.op = "createTable", !.t = t, !.cols = cols]
CallInsert(t, row) == [NoCall EXCEPT !.op = "insert", !.t = t, !.row = row]
CallLookup(t, id) == [NoCall EXCEPT !.op = "lookup", !.t = t, !.id = id]
CallScanAll(t) == [NoCall EXCEPT !.op = "scanAll", !.t = t]
CallUpdate(t, id, updates) ==
    [NoCall EXCEPT !.op = "update", !.t = t, !.id = id, !.updates = updates]
CallDelete(t, id) == [NoCall EXCEPT !.op = "delete", !.t = t, !.id = id]
CallRebuild(t) == [NoCall EXCEPT !.op = "rebuildIndex", !.t = t]
CallAppendRow(t, row) == [NoCall EXCEPT !.op = "appendRow", !.t = t, !.row = row]
CallReadRow(t, offset) == [NoCall EXCEPT !.op = "readRow", !.t = t, !.offset = offset]
(* selectByColumn(t, col, value): the condition is held like an update     *)
(* pair.                                                                   *)
CallSelectByColumn(t, col, value) ==
    [NoCall EXCEPT !.op = "selectByColumn", !.t = t, !.updates = << <<col, value>> >>]

(* The locals are dropped when a call returns; the arguments stay.         *)
Args(c) ==
    [c EXCEPT !.offset = IF c.op = "readRow" THEN c.offset ELSE 0,
              !.metaExists = FALSE, !.metadata = <<>>,
              !.cur = <<>>, !.records = <<>>, !.rows = <<>>]

Mutators == {"insert", "update", "delete", "appendRow"}

BeforeAppend ==
    {"ins_append", "fb_index", "fb_read", "upd_meta", "upd_append", "del_append",
     "st_append", "st_write"}

(* History of appends: written[t] is the sequence of [row, off].           *)
Written(t) == IF t \in DOMAIN written THEN written[t] ELSE <<>>

RECURSIVE SumLen(_, _)
SumLen(w, S) ==
    IF S = {} THEN 0
    ELSE LET t == CHOOSE t \in S : TRUE IN Len(w[t]) + SumLen(w, S \ {t})

NumWritten == SumLen(written, DOMAIN written)

Record(w, t, data, off) ==
    MapSet(w, t, Append(IF t \in DOMAIN w THEN w[t] ELSE <<>>,
                        [row |-> data, off |-> off]))

InFlightAppends ==
    Cardinality({p \in Procs : call[p].op \in Mutators /\ pc[p] \in BeforeAppend})

FirstLabel(op) ==
    CASE op = "createTable" -> "ct_lock"
      [] op = "insert" -> "ins_append"
      [] op = "lookup" -> "fb_index"
      [] op = "update" -> "fb_index"
      [] op = "delete" -> "fb_index"
      [] op = "scanAll" -> "sa_index"
      [] op = "selectByColumn" -> "sbc_meta"
      [] op = "rebuildIndex" -> "rb_lock"
      [] op = "appendRow" -> "st_append"
      [] op = "readRow" -> "st_read"

Init ==
    /\ files = <<>>
    /\ metaFile = <<>>
    /\ Tables = <<>>
    /\ Indexes = <<>>
    /\ mu = 0
    /\ storageMutex = [p \in Procs |-> ""]
    /\ pc = [p \in Procs |-> "idle"]
    /\ call = [p \in Procs |-> NoCall]
    /\ ret = [p \in Procs |-> NoResult]
    /\ written = <<>>
    /\ deleted = {}

(* A call returns r: the caller holds the result (pc "done") until it is   *)
(* taken, then the slot is free again.                                     *)
Return(p, r) ==
    /\ pc' = [pc EXCEPT ![p] = "done"]
    /\ call' = [call EXCEPT ![p] = Args(call[p])]
    /\ ret' = [ret EXCEPT ![p] = r]

Done(p) ==
    /\ pc[p] = "done"
    /\ pc' = [pc EXCEPT ![p] = "idle"]
    /\ call' = [call EXCEPT ![p] = NoCall]
    /\ ret' = [ret EXCEPT ![p] = NoResult]
    /\ UNCHANGED <<files, metaFile, Tables, Indexes, mu, written, deleted>>

Goto(p, label, c) ==
    /\ pc' = [pc EXCEPT ![p] = label]
    /\ call' = [call EXCEPT ![p] = c]
    /\ UNCHANGED ret

(* A call starts on the lowest free caller slot (the callers are           *)
(* anonymous goroutines).  InsertRow lines 410-412 need no shared state:   *)
(* the row is validated at once.                                           *)
Start(p, c) ==
    /\ pc[p] = "idle"
    /\ \A q \in 1..(p - 1) : pc[q] # "idle"
    /\ c.op \in Mutators => NumWritten + InFlightAppends < MaxAppends
    /\ IF c.op = "insert" /\ Len(c.row) < 2
       THEN /\ pc' = [pc EXCEPT ![p] = "done"]
            /\ call' = [call EXCEPT ![p] = c]
            /\ ret' = [ret EXCEPT ![p] = Err("ValidationError")]
       ELSE /\ pc' = [pc EXCEPT ![p] = FirstLabel(c.op)]
            /\ call' = [call EXCEPT ![p] = c]
            /\ ret' = [ret EXCEPT ![p] = NoResult]
    /\ deleted' = IF c.op = "insert" /\ Len(c.row) >= 1
                  THEN deleted \ {<<c.t, c.row[1]>>}
                  ELSE IF c.op = "update" THEN deleted \ {<<c.t, c.id>>}
                  ELSE deleted
    /\ UNCHANGED <<files, metaFile, Tables, Indexes, mu, written>>

(* InsertRow line 417: storage.AppendRow under the storage mutex.          *)
InsAppend(p) ==
    /\ pc[p] = "ins_append"
    /\ files' = AppendRow(files, call[p].t, call[p].row)
    /\ written' = Record(written, call[p].t, call[p].row, AppendOffset(files, call[p].t))
    /\ Goto(p, "ins_index", [call[p] EXCEPT !.offset = AppendOffset(files, call[p].t)])
    /\ UNCHANGED <<metaFile, Tables, Indexes, mu, deleted>>

(* InsertRow lines 423-432 with a fresh map made on every insert.          *)
InsertIndexUpdate_FreshMap(idxs, t, id, offset) ==
    MapSet(idxs, t, MapSet(EmptyIndex, id, offset))

(* InsertRow lines 423-432 with an existence check: a key already in the   *)
(* Index keeps its offset.                                                 *)
InsertIndexUpdate_KeepsExisting(idxs, t, id, offset) ==
    IF t \in DOMAIN idxs /\ id \in DOMAIN idxs[t] THEN idxs
    ELSE MapSet(idxs, t, MapSet(IF t \in DOMAIN idxs THEN idxs[t] ELSE EmptyIndex,
                                id, offset))

(* InsertRow lines 423-432: the Index update under db.mu.Lock.             *)
InsertIndexUpdate(idxs, t, id, offset) ==
    MapSet(idxs, t, MapSet(IF t \in DOMAIN idxs THEN idxs[t] ELSE EmptyIndex, id, offset))

InsIndex(p) ==
    /\ pc[p] = "ins_index"
    /\ mu = 0
    /\ Indexes' = InsertIndexUpdate(Indexes, call[p].t, call[p].row[1], call[p].offset)
    /\ Return(p, Ok(<<>>))
    /\ UNCHANGED <<files, metaFile, Tables, mu, written, deleted>>

(***************************************************************************)
(* FindByID lines 320-333 without the check of lines 323-326: a table      *)
(* without an Index is read at offset 0.                                   *)
(***************************************************************************)
FindIndex_NoTableCheck(idxs, tbls, t, id) ==
    LET meta == [metaExists |-> t \in DOMAIN tbls,
                 metadata |-> IF t \in DOMAIN tbls THEN tbls[t] ELSE <<>>]
    IN  IF t \notin DOMAIN idxs
        THEN [err |-> "", offset |-> 0] @@ meta
        ELSE IF id \notin DOMAIN idxs[t]
        THEN [err |-> "NotFoundError", offset |-> 0] @@ meta
        ELSE [err |-> "", offset |-> idxs[t][id]] @@ meta

(***************************************************************************)
(* FindByID lines 320-333: the Index and the metadata are read under       *)
(* db.mu.RLock, which is released before the disk read.                    *)
(***************************************************************************)
FindIndex(idxs, tbls, t, id) ==
    LET meta == [metaExists |-> t \in DOMAIN tbls,
                 metadata |-> IF t \in DOMAIN tbls THEN tbls[t] ELSE <<>>]
    IN  IF t \notin DOMAIN idxs
        THEN [err |-> "NotFoundError", offset |-> 0] @@ meta
        ELSE IF id \notin DOMAIN idxs[t]
        THEN [err |-> "NotFoundError", offset |-> 0] @@ meta
        ELSE [err |-> "", offset |-> idxs[t][id]] @@ meta

(* FindByID lines 320-333 with the absent key of a known table taken to   *)
(* be at offset 0 instead of being refused (lines 328-332).                *)
FbIndex_AbsentKeyAtZero(p) ==
    /\ pc[p] = "fb_index"
    /\ mu = 0
    /\ LET f == FindIndex(Indexes, Tables, call[p].t, call[p].id)
       IN  IF f.err # "" /\ call[p].t \notin DOMAIN Indexes THEN Return(p, Err(f.err))
           ELSE Goto(p, "fb_read",
                     [call[p] EXCEPT !.offset = f.offset,
                                     !.metaExists = f.metaExists,
                                     !.metadata = f.metadata])
    /\ UNCHANGED <<files, metaFile, Tables, Indexes, mu, written, deleted>>

FbIndex(p) ==
    /\ pc[p] = "fb_index"
    /\ mu = 0
    /\ LET f == FindIndex(Indexes, Tables, call[p].t, call[p].id)
       IN  IF f.err # "" THEN Return(p, Err(f.err))
           ELSE Goto(p, "fb_read",
                     [call[p] EXCEPT !.offset = f.offset,
                                     !.metaExists = f.metaExists,
                                     !.metadata = f.metadata])
    /\ UNCHANGED <<files, metaFile, Tables, Indexes, mu, written, deleted>>

(* FindByID lines 335-349: what the call returns once the offset is known. *)
FindRead(fs, c) ==
    LET r == ReadRow(fs, c.t, c.offset)
    IN  IF r.err # "" THEN r
        ELSE Ok(TruncateRow(r.val, c.metaExists, c.metadata))

(* FindByID run from start to end with no other step in between.           *)
FindByID(idxs, tbls, fs, t, id) ==
    LET f == FindIndex(idxs, tbls, t, id)
    IN  IF f.err # "" THEN Err(f.err)
        ELSE FindRead(fs, [t |-> t, offset |-> f.offset,
                           metaExists |-> f.metaExists, metadata |-> f.metadata])

(* The disk read of FindByID, and what its caller does with the row:       *)
(* lookup returns it, DeleteRow (lines 438-446) and UpdateRow (lines       *)
(* 472-475) go on with it.                                                 *)
FbRead(p) ==
    /\ pc[p] = "fb_read"
    /\ LET r == FindRead(files, call[p])
       IN  IF r.err # "" THEN Return(p, r)
           ELSE IF call[p].op = "lookup" THEN Return(p, r)
           ELSE IF call[p].op = "delete"
           THEN IF Len(r.val) < 2 THEN Return(p, Err("CorruptDataError"))
                ELSE Goto(p, "del_append", [call[p] EXCEPT !.cur = r.val])
           ELSE Goto(p, "upd_meta", [call[p] EXCEPT !.cur = r.val])
    /\ UNCHANGED <<files, metaFile, Tables, Indexes, mu, written, deleted>>

(* DeleteRow lines 448-456: the tombstone is appended.                     *)
DelAppend(p) ==
    /\ pc[p] = "del_append"
    /\ files' = AppendRow(files, call[p].t, Tombstone(call[p].cur))
    /\ written' = Record(written, call[p].t, Tombstone(call[p].cur),
                         AppendOffset(files, call[p].t))
    /\ Goto(p, "del_index", call[p])
    /\ UNCHANGED <<metaFile, Tables, Indexes, mu, deleted>>

(* DeleteRow lines 459-466: the key is removed under db.mu.Lock.           *)
DeleteIndexUpdate(idxs, t, id) ==
    IF t \in DOMAIN idxs THEN MapSet(idxs, t, MapDelete(idxs[t], id)) ELSE idxs

DelIndex(p) ==
    /\ pc[p] = "del_index"
    /\ mu = 0
    /\ Indexes' = DeleteIndexUpdate(Indexes, call[p].t, call[p].id)
    /\ Return(p, Ok(<<>>))
    /\ deleted' = deleted \cup {<<call[p].t, call[p].id>>}
    /\ UNCHANGED <<files, metaFile, Tables, mu, written>>

(* UpdateRow lines 478-537: the metadata is read under db.mu.RLock, then   *)
(* the new row is built.                                                   *)
UpdMeta(p) ==
    /\ pc[p] = "upd_meta"
    /\ mu = 0
    /\ IF call[p].t \notin DOMAIN Tables THEN Return(p, Err("NotFoundError"))
       ELSE LET r == PrepareUpdate(call[p].cur, Tables[call[p].t], call[p].updates)
            IN  IF r.err # "" THEN Return(p, r)
                ELSE Goto(p, "upd_append", [call[p] EXCEPT !.cur = r.val])
    /\ UNCHANGED <<files, metaFile, Tables, Indexes, mu, written, deleted>>

(* UpdateRow lines 540-543: the new row is appended.                       *)
UpdAppend(p) ==
    /\ pc[p] = "upd_append"
    /\ files' = AppendRow(files, call[p].t, call[p].cur)
    /\ written' = Record(written, call[p].t, call[p].cur, AppendOffset(files, call[p].t))
    /\ Goto(p, "upd_index", [call[p] EXCEPT !.offset = AppendOffset(files, call[p].t)])
    /\ UNCHANGED <<metaFile, Tables, Indexes, mu, deleted>>

(* UpdateRow lines 546-553: the Index is repointed under db.mu.Lock.       *)
UpdateIndexUpdate_DropsOthers(idxs, t, id, offset) ==
    IF t \in DOMAIN idxs THEN MapSet(idxs, t, MapSet(EmptyIndex, id, offset)) ELSE idxs

UpdateIndexUpdate(idxs, t, id, offset) ==
    IF t \in DOMAIN idxs THEN MapSet(idxs, t, MapSet(idxs[t], id, offset)) ELSE idxs

UpdIndex(p) ==
    /\ pc[p] = "upd_index"
    /\ mu = 0
    /\ Indexes' = UpdateIndexUpdate(Indexes, call[p].t, call[p].id, call[p].offset)
    /\ Return(p, Ok(<<>>))
    /\ UNCHANGED <<files, metaFile, Tables, mu, written, deleted>>

Reverse(s) == [i \in 1..Len(s) |-> s[Len(s) + 1 - i]]

(* SelectAll with the records sorted by descending offset.                 *)
SaIndex_Descending(p) ==
    /\ pc[p] = "sa_index"
    /\ mu = 0
    /\ LET t == call[p].t
       IN  IF t \notin DOMAIN Indexes THEN Return(p, Err("NotFoundError"))
           ELSE Goto(p, "sa_read",
                     [call[p] EXCEPT
                         !.records = Reverse(SortedOffsets(IndexOffsets(Indexes[t]))),
                         !.metaExists = t \in DOMAIN Tables,
                         !.metadata = IF t \in DOMAIN Tables
                                      THEN Tables[t] ELSE <<>>])
    /\ UNCHANGED <<files, metaFile, Tables, Indexes, mu, written, deleted>>

(* SelectAll lines 354-376: the offsets are collected under db.mu.RLock    *)
(* and sorted.                                                             *)
SaIndex(p) ==
    /\ pc[p] = "sa_index"
    /\ mu = 0
    /\ LET t == call[p].t
       IN  IF t \notin DOMAIN Indexes THEN Return(p, Err("NotFoundError"))
           ELSE Goto(p, "sa_read",
                     [call[p] EXCEPT !.records = SortedOffsets(IndexOffsets(Indexes[t])),
                                     !.metaExists = t \in DOMAIN Tables,
                                     !.metadata = IF t \in DOMAIN Tables
                                                  THEN Tables[t] ELSE <<>>])
    /\ UNCHANGED <<files, metaFile, Tables, Indexes, mu, written, deleted>>

(* SelectAll lines 378-385 and 395-399 with the expected length taken as   *)
(* len(Columns)+1.                                                         *)
SelectAllTruncate_OneShort(row, metaExists, columns) ==
    LET expectedTotalLen == IF metaExists THEN Len(columns) + 1 ELSE 0
    IN  IF expectedTotalLen > 0 /\ Len(row) > expectedTotalLen
        THEN SubSeq(row, 1, expectedTotalLen)
        ELSE row

(* SelectAll lines 378-385 and 395-399: the expected length is 0 without   *)
(* metadata, and a longer row is cut to it when it is positive.            *)
SelectAllTruncate(row, metaExists, columns) ==
    LET expectedTotalLen == IF metaExists THEN Len(columns) + 2 ELSE 0
    IN  IF expectedTotalLen > 0 /\ Len(row) > expectedTotalLen
        THEN SubSeq(row, 1, expectedTotalLen)
        ELSE row

(* SelectByColumn lines 590-601: the rows whose target field equals the    *)
(* value under strings.EqualFold.                                          *)
SelectByColumnFilter_CaseSensitive(rows, targetColIndex, value) ==
    SelectSeq(rows, LAMBDA row :
        targetColIndex < Len(row) /\ row[targetColIndex + 1] = value)

SelectByColumnFilter(rows, targetColIndex, value) ==
    SelectSeq(rows, LAMBDA row :
        targetColIndex < Len(row) /\ EqualFold(row[targetColIndex + 1], value))

(* SelectAll lines 389-404: one pass of the read loop (one ReadRow), or    *)
(* the return once every record is read (to SelectByColumn, line 584,      *)
(* which filters the rows, when the call is a selectByColumn).             *)
SaRead(p) ==
    /\ pc[p] = "sa_read"
    /\ IF call[p].records = <<>>
       THEN Return(p, Ok(IF call[p].op = "selectByColumn"
                         THEN SelectByColumnFilter(call[p].rows, call[p].offset,
                                                   call[p].updates[1][2])
                         ELSE call[p].rows))
       ELSE LET r == ReadRow(files, call[p].t, Head(call[p].records))
            IN  IF r.err # "" THEN Return(p, Err(r.err))
                ELSE Goto(p, "sa_read",
                          [call[p] EXCEPT
                              !.records = Tail(call[p].records),
                              !.rows = Append(call[p].rows,
                                  SelectAllTruncate(r.val, call[p].metaExists,
                                                    call[p].metadata))])
    /\ UNCHANGED <<files, metaFile, Tables, Indexes, mu, written, deleted>>

(* SelectByColumn lines 558-587: the metadata is read under db.mu.RLock    *)
(* and the target field found; then SelectAll is called.                   *)
SbcMeta(p) ==
    /\ pc[p] = "sbc_meta"
    /\ mu = 0
    /\ IF call[p].t \notin DOMAIN Tables THEN Return(p, Err("NotFoundError"))
       ELSE LET targetColIndex == ColumnIndex(Tables[call[p].t], call[p].updates[1][1])
            IN  IF targetColIndex = -1 THEN Return(p, Err("ColumnNotFoundError"))
                ELSE Goto(p, "sa_index", [call[p] EXCEPT !.offset = targetColIndex])
    /\ UNCHANGED <<files, metaFile, Tables, Indexes, mu, written, deleted>>

(* RebuildIndex lines 266-316, under db.mu.Lock from start to end.         *)
RbLock(p) ==
    /\ pc[p] = "rb_lock"
    /\ mu = 0
    /\ Indexes' = RebuildIndex(Indexes, files, call[p].t)
    /\ Return(p, Ok(<<>>))
    /\ UNCHANGED <<files, metaFile, Tables, mu, written, deleted>>

(***************************************************************************)
(* CreateTable lines 127-192.                                              *)
(***************************************************************************)
(* Lines 128-143 without line 143: the metadata is registered, the Index   *)
(* is not made.                                                            *)
CtLock_NoIndex(p) ==
    /\ pc[p] = "ct_lock"
    /\ mu = 0
    /\ LET t == call[p].t
       IN  IF t \in DOMAIN Tables
           THEN /\ Return(p, Err("AlreadyExistsError"))
                /\ UNCHANGED <<Tables, Indexes, mu>>
           ELSE /\ Tables' = MapSet(Tables, t, call[p].cols)
                /\ UNCHANGED Indexes
                /\ mu' = p
                /\ Goto(p, "ct_file", call[p])
    /\ UNCHANGED <<files, metaFile, written, deleted>>

(* Lines 128-143 without the check of lines 131-134: the name is           *)
(* registered again, over the registered one.                              *)
CtLock_NoExistsCheck(p) ==
    /\ pc[p] = "ct_lock"
    /\ mu = 0
    /\ Tables' = MapSet(Tables, call[p].t, call[p].cols)
    /\ Indexes' = MapSet(Indexes, call[p].t, EmptyIndex)
    /\ mu' = p
    /\ Goto(p, "ct_file", call[p])
    /\ UNCHANGED <<files, metaFile, written, deleted>>

(* Lines 128-143: under db.mu.Lock, refuse a registered name, else         *)
(* register the metadata and an empty Index; the lock stays held.          *)
CtLock(p) ==
    /\ pc[p] = "ct_lock"
    /\ mu = 0
    /\ LET t == call[p].t
       IN  IF t \in DOMAIN Tables
           THEN /\ Return(p, Err("AlreadyExistsError"))
                /\ UNCHANGED <<Tables, Indexes, mu>>
           ELSE /\ Tables' = MapSet(Tables, t, call[p].cols)
                /\ Indexes' = MapSet(Indexes, t, EmptyIndex)
                /\ mu' = p
                /\ Goto(p, "ct_file", call[p])
    /\ UNCHANGED <<files, metaFile, written, deleted>>

(* Line 146: storage.CreateTableFile, db.mu still held.                    *)
CtFile(p) ==
    /\ pc[p] = "ct_file"
    /\ LET r == CreateTableFile(files, call[p].t)
       IN  /\ files' = r.files
           /\ IF r.err # ""
              THEN /\ Goto(p, "ct_orphan", call[p])
                   /\ UNCHANGED mu
              ELSE /\ mu' = 0
                   /\ Goto(p, "ct_save", call[p])
    /\ UNCHANGED <<metaFile, Tables, Indexes, written, deleted>>

(* Lines 148-172: the file exists already: it is replayed into the Index,  *)
(* then db.mu is released.                                                 *)
CreateTableReplay_Skipped(idxs, fs, t) == idxs

CreateTableReplay(idxs, fs, t) ==
    IF t \in DOMAIN fs
    THEN MapSet(idxs, t, CreateTableLoop(ScanLines(fs[t]), idxs[t], 0))
    ELSE idxs

CtOrphan(p) ==
    /\ pc[p] = "ct_orphan"
    /\ Indexes' = CreateTableReplay(Indexes, files, call[p].t)
    /\ mu' = 0
    /\ Goto(p, "ct_save", call[p])
    /\ UNCHANGED <<files, metaFile, Tables, written, deleted>>

(* Lines 173-176 and 187-191: SaveMetadata (lines 43-66) under db.mu.RLock.*)
CtSave(p) ==
    /\ pc[p] = "ct_save"
    /\ mu = 0
    /\ metaFile' = Tables
    /\ Return(p, Ok(<<>>))
    /\ UNCHANGED <<files, Tables, Indexes, mu, written, deleted>>

(***************************************************************************)
(* CreateTable on a filesystem that can fail.  fault names the call that   *)
(* fails: "" for none; "create" for MkdirAll or OpenFile in                *)
(* storage.CreateTableFile (storage.go 140-152, an error other than        *)
(* "already exists") and for MkdirAll or os.Create in SaveMetadata         *)
(* (engine.go 48-56); "encode" for the write of the JSON (lines 59-63),    *)
(* which comes after os.Create has truncated the file.                     *)
(***************************************************************************)
CreateFaults == {"", "create"}
SaveFaults == {"", "create", "encode"}

(* Lines 146-184: the real-error branch removes the two entries of the     *)
(* name and releases db.mu.                                                *)
CtFileIO(p, fault) ==
    /\ pc[p] = "ct_file"
    /\ IF fault = "create"
       THEN /\ Tables' = MapDelete(Tables, call[p].t)
            /\ Indexes' = MapDelete(Indexes, call[p].t)
            /\ mu' = 0
            /\ Return(p, Err("IOError"))
            /\ UNCHANGED files
       ELSE LET r == CreateTableFile(files, call[p].t)
            IN  /\ files' = r.files
                /\ IF r.err # ""
                   THEN /\ Goto(p, "ct_orphan", call[p])
                        /\ UNCHANGED mu
                   ELSE /\ mu' = 0
                        /\ Goto(p, "ct_save", call[p])
                /\ UNCHANGED <<Tables, Indexes>>
    /\ UNCHANGED <<metaFile, written, deleted>>

(* SaveMetadata failing, with the registration taken back.                 *)
CtSaveIO_Unregisters(p, fault) ==
    /\ pc[p] = "ct_save"
    /\ mu = 0
    /\ IF fault = ""
       THEN /\ metaFile' = Tables
            /\ Return(p, Ok(<<>>))
            /\ UNCHANGED <<Tables, Indexes>>
       ELSE /\ metaFile' = IF fault = "encode" THEN <<>> ELSE metaFile
            /\ Tables' = MapDelete(Tables, call[p].t)
            /\ Indexes' = MapDelete(Indexes, call[p].t)
            /\ Return(p, Err("IOError"))
    /\ UNCHANGED <<files, mu, written, deleted>>

(* Lines 173-176 and 187-191 with SaveMetadata (lines 43-66): a failure is *)
(* returned as "failed to save metadata" and db.Tables and db.Indexes are  *)
(* left as they are; the metadata file is as before when it could not be   *)
(* created and holds no table when the write failed after the truncation.  *)
CtSaveIO(p, fault) ==
    /\ pc[p] = "ct_save"
    /\ mu = 0
    /\ IF fault = ""
       THEN /\ metaFile' = Tables
            /\ Return(p, Ok(<<>>))
       ELSE /\ metaFile' = IF fault = "encode" THEN <<>> ELSE metaFile
            /\ Return(p, Err("IOError"))
    /\ UNCHANGED <<files, Tables, Indexes, mu, written, deleted>>

(***************************************************************************)
(* The storage package called directly: AppendRow (lines 28-67) returns    *)
(* the offset, ReadRow (lines 70-111) the data fields or an error.         *)
(***************************************************************************)
StAppend(p) ==
    /\ pc[p] = "st_append"
    /\ files' = AppendRow(files, call[p].t, call[p].row)
    /\ written' = Record(written, call[p].t, call[p].row, AppendOffset(files, call[p].t))
    /\ Return(p, OkOffset(AppendOffset(files, call[p].t)))
    /\ UNCHANGED <<metaFile, Tables, Indexes, mu, deleted>>

StRead(p) ==
    /\ pc[p] = "st_read"
    /\ Return(p, ReadRow(files, call[p].t, call[p].offset))
    /\ UNCHANGED <<files, metaFile, Tables, Indexes, mu, written, deleted>>

(***************************************************************************)
(* The storage mutex made visible.  In the steps above a storage call is   *)
(* one step: Lock, the body, the deferred Unlock.  Here it is two: the     *)
(* Lock or RLock (storage.go 29, 71, 136), which waits for the mutex, and  *)
(* the body with the deferred Unlock.  storage.OpenTableFile takes no      *)
(* lock.                                                                   *)
(***************************************************************************)
(* The lock the caller's next step asks of the storage mutex: "W" for      *)
(* AppendRow and CreateTableFile, "R" for ReadRow, "" for none.            *)
StorageMode(p) ==
    IF pc[p] \in {"ins_append", "del_append", "upd_append", "ct_file", "st_append"}
    THEN "W"
    ELSE IF pc[p] = "fb_read" \/ (pc[p] = "sa_read" /\ call[p].records # <<>>) THEN "R"
    ELSE ""

(* A Lock that does not wait for the holders.                              *)
SmLock_NoExclusion(p) ==
    /\ StorageMode(p) # ""
    /\ storageMutex[p] = ""
    /\ storageMutex' = [storageMutex EXCEPT ![p] = StorageMode(p)]
    /\ UNCHANGED <<files, metaFile, Tables, Indexes, mu, pc, call, ret, written, deleted>>

SmLock(p) ==
    /\ StorageMode(p) # ""
    /\ storageMutex[p] = ""
    /\ IF StorageMode(p) = "W"
       THEN \A q \in Procs : storageMutex[q] = ""
       ELSE \A q \in Procs : storageMutex[q] # "W"
    /\ storageMutex' = [storageMutex EXCEPT ![p] = StorageMode(p)]
    /\ UNCHANGED <<files, metaFile, Tables, Indexes, mu, pc, call, ret, written, deleted>>

(* The steps at which a caller takes db.mu, for reading or writing (the    *)
(* read sections and all write sections but createTable's are one step).   *)
MuSteps ==
    {"ins_index", "fb_index", "del_index", "upd_meta", "upd_index", "sbc_meta",
     "sa_index", "ct_lock", "ct_save", "rb_lock"}

InCall(p) == pc[p] \notin {"idle", "done"}

(* Caller q is in a call and its next step is enabled: it needs no lock,   *)
(* or it holds the lock it needs, or the lock it needs can be taken.       *)
Runnable(q) ==
    /\ InCall(q)
    /\ IF pc[q] \in MuSteps THEN mu = 0
       ELSE IF StorageMode(q) # "" /\ storageMutex[q] = ""
       THEN IF StorageMode(q) = "W"
            THEN \A r \in Procs : storageMutex[r] = ""
            ELSE \A r \in Procs : storageMutex[r] # "W"
       ELSE TRUE

(* The body of a storage call that leaves the mutex locked on return.      *)
SmSection_KeepsLock(p) ==
    /\ storageMutex[p] # ""
    /\ \/ InsAppend(p)
       \/ DelAppend(p)
       \/ UpdAppend(p)
       \/ FbRead(p)
       \/ SaRead(p)
       \/ CtFile(p)
    /\ UNCHANGED storageMutex

(* The body of the storage call, run by the holder, up to the deferred     *)
(* Unlock (storage.go 30, 72, 137), and what the engine does with the      *)
(* result before its next lock.                                            *)
SmSection(p) ==
    /\ storageMutex[p] # ""
    /\ \/ InsAppend(p)
       \/ DelAppend(p)
       \/ UpdAppend(p)
       \/ FbRead(p)
       \/ SaRead(p)
       \/ CtFile(p)
    /\ storageMutex' = [storageMutex EXCEPT ![p] = ""]

(* AppendRow called directly, its body in two steps by the holder of the   *)
(* mutex: the size of the file is read (storage.go 50-55), then the line   *)
(* is written and the size read before is returned, with the deferred      *)
(* Unlock (lines 57-66).                                                   *)
StSeek(p) ==
    /\ pc[p] = "st_append"
    /\ storageMutex[p] = "W"
    /\ Goto(p, "st_write", [call[p] EXCEPT !.offset = AppendOffset(files, call[p].t)])
    /\ UNCHANGED <<files, metaFile, Tables, Indexes, mu, storageMutex, written, deleted>>

StWrite(p) ==
    /\ pc[p] = "st_write"
    /\ files' = AppendRow(files, call[p].t, call[p].row)
    /\ written' = Record(written, call[p].t, call[p].row, call[p].offset)
    /\ Return(p, OkOffset(call[p].offset))
    /\ storageMutex' = [storageMutex EXCEPT ![p] = ""]
    /\ UNCHANGED <<metaFile, Tables, Indexes, mu, deleted>>

(***************************************************************************)
(* The process stops (calls in flight are lost with it) and starts again:  *)
(* main runs Recover before it serves any request.                         *)
(***************************************************************************)
Restart ==
    /\ Tables' = metaFile
    /\ Indexes' = RecoverIndexes(metaFile, files)
    /\ mu' = 0
    /\ storageMutex' = [p \in Procs |-> ""]
    /\ pc' = [p \in Procs |-> "idle"]
    /\ call' = [p \in Procs |-> NoCall]
    /\ ret' = [p \in Procs |-> NoResult]
    /\ UNCHANGED <<files, metaFile, written, deleted>>

(***************************************************************************)
(* Recover lines 98-124 step by step, with the I/O failures the file       *)
(* system can produce while a log is opened or read.  A fault is           *)
(* [kind, n]: kind "none", "open" (os.Open fails though the file exists)   *)
(* or "read" (the scanner's reader fails after n bytes).                   *)
(***************************************************************************)
(* LoadIndex lines 210-262 under a fault.  Every error of OpenTableFile,   *)
(* file missing or not, ends in "return nil" (line 229).  After a read     *)
(* error bufio.Scanner still hands out what it has buffered, the last      *)
(* piece as a final line, and scanner.Err() returns the error (258-260).   *)
LoadIndexIO(idxs, fs, t, fault) ==
    LET start == IF t \in DOMAIN idxs THEN idxs[t] ELSE EmptyIndex
    IN  IF t \notin DOMAIN fs \/ fault.kind = "open"
        THEN [idxs |-> MapSet(idxs, t, start), err |-> ""]
        ELSE IF fault.kind = "read"
        THEN [idxs |-> MapSet(idxs, t,
                          LoadIndexLoop(ScanLines(SubSeq(fs[t], 1, fault.n)), start, 0)),
              err |-> "IOError"]
        ELSE [idxs |-> MapSet(idxs, t, LoadIndexLoop(ScanLines(fs[t]), start, 0)),
              err |-> ""]

CallRecover == [NoCall EXCEPT !.op = "recover"]

RemoveAt(seq, i) == SubSeq(seq, 1, i - 1) \o SubSeq(seq, i + 1, Len(seq))

RECURSIVE SetToSeq(_)
SetToSeq(S) ==
    IF S = {} THEN <<>>
    ELSE LET x == CHOOSE x \in S : TRUE IN <<x>> \o SetToSeq(S \ {x})

(* Lines 100-115: LoadMetadata (lines 69-95) fills db.Tables and gives     *)
(* every table an empty Index; the table names are collected.              *)
RcMeta(p) ==
    /\ pc[p] = "rc_meta"
    /\ mu = 0
    /\ Tables' = metaFile
    /\ Indexes' = [t \in DOMAIN metaFile |-> EmptyIndex]
    /\ Goto(p, "rc_load", [call[p] EXCEPT !.records = SetToSeq(DOMAIN metaFile)])
    /\ UNCHANGED <<files, metaFile, mu, written, deleted>>

(* Lines 117-123: one pass of the loop over the table names (in any order, *)
(* they come from a map), LoadIndex and the warning printed when it        *)
(* returns an error; after the last table Recover returns nil.  The        *)
(* call's rows hold one entry per table: the fault met and the error       *)
(* printed ("" when none was).                                             *)
RcLoad(p, faults) ==
    /\ pc[p] = "rc_load"
    /\ mu = 0
    /\ IF call[p].records = <<>>
       THEN /\ Return(p, Ok(call[p].rows))
            /\ UNCHANGED Indexes
       ELSE \E i \in 1..Len(call[p].records) :
            \E fault \in faults :
              LET t == call[p].records[i]
                  r == LoadIndexIO(Indexes, files, t, fault)
              IN  /\ fault.kind = "read" => (t \in DOMAIN files /\ fault.n <= Len(files[t]))
                  /\ Indexes' = r.idxs
                  /\ Goto(p, "rc_load",
                          [call[p] EXCEPT
                              !.records = RemoveAt(call[p].records, i),
                              !.rows = Append(call[p].rows,
                                  [t |-> t, fault |-> fault.kind,
                                   missing |-> t \notin DOMAIN files,
                                   err |-> r.err])])
    /\ UNCHANGED <<files, metaFile, Tables, mu, written, deleted>>

(***************************************************************************)
(* handleSQL lines 64-92 of main.go: the response to a query whose engine  *)
(* call returned r (the parser hands an engine error on as it is).  On an  *)
(* http.ResponseWriter the first WriteHeader fixes the status and a later  *)
(* one is ignored.                                                         *)
(***************************************************************************)
StatusOK == 200
StatusBadRequest == 400

NewResponse == [wroteHeader |-> FALSE, status |-> StatusOK, success |-> TRUE]

WriteHeader(w, code) ==
    IF w.wroteHeader THEN w ELSE [w EXCEPT !.wroteHeader = TRUE, !.status = code]

handleSQL(r) ==
    IF r.err # ""
    THEN [WriteHeader(WriteHeader(NewResponse, StatusOK), StatusBadRequest)
             EXCEPT !.success = FALSE]
    ELSE WriteHeader(NewResponse, StatusOK)

(***************************************************************************)
(* Inputs.                                                                 *)
(***************************************************************************)
KeyA == <<"a">>
KeyB == <<"b">>
KeyNL == <<"a", NL, "b">>
KeyPipe == <<"a", Pipe, "b">>
ValX == <<"x">>
ValY == <<"y">>
ColK == <<"k", Space, "t">>
ColV == <<"v", Space, "t">>

Quiescent == \A p \in Procs : pc[p] \in {"idle", "done"}

(***************************************************************************)
(* Spec: the engine under concurrent callers, with restarts.               *)
(***************************************************************************)
SpecCalls ==
    {CallCreateTable("tx", <<ColK>>),
     CallInsert("tx", <<KeyA, Flag1>>),
     CallInsert("tx", <<KeyNL, Flag1>>),
     CallInsert("tx", <<KeyA>>),
     CallLookup("tx", KeyA),
     CallScanAll("tx"),
     CallUpdate("tx", KeyA, << <<<<"K">>, KeyB>> >>),
     CallDelete("tx", KeyA),
     CallRebuild("tx")}

Step(p) ==
    /\ \/ \E c \in SpecCalls : Start(p, c)
       \/ InsAppend(p)
       \/ InsIndex(p)
       \/ FbIndex(p)
       \/ FbRead(p)
       \/ DelAppend(p)
       \/ DelIndex(p)
       \/ UpdMeta(p)
       \/ UpdAppend(p)
       \/ UpdIndex(p)
       \/ SaIndex(p)
       \/ SaRead(p)
       \/ RbLock(p)
       \/ CtLock(p)
       \/ CtFile(p)
       \/ CtOrphan(p)
       \/ CtSave(p)
       \/ Done(p)
    /\ UNCHANGED storageMutex

Next == (\E p \in Procs : Step(p)) \/ Restart

Spec == Init /\ [][Next]_vars

(***************************************************************************)
(* SpecSeq: one caller at a time (a sequential series of calls), with      *)
(* restarts, over a wider range of rows.                                   *)
(***************************************************************************)
SeqCalls ==
    {CallCreateTable("tx", <<ColK>>),
     CallCreateTable("tx", <<ColK, ColV>>),
     CallInsert("tx", <<KeyA, Flag1>>),
     CallInsert("tx", <<KeyB, Flag1, ValX>>),
     CallInsert("tx", <<KeyA, Flag1, ValX, ValY>>),
     CallInsert("tx", <<KeyA, Flag0>>),
     CallInsert("tx", <<KeyPipe, Flag1>>),
     CallInsert("tx", <<KeyNL, Flag1>>),
     CallInsert("tx", <<KeyA>>),
     CallLookup("tx", KeyA),
     CallLookup("tx", KeyB),
     CallLookup("tx", KeyPipe),
     CallLookup("tx", KeyNL),
     CallScanAll("tx"),
     CallUpdate("tx", KeyA, << <<<<"K">>, KeyB>> >>),
     CallUpdate("tx", KeyB, << <<<<"v">>, ValY>> >>),
     CallDelete("tx", KeyA),
     CallDelete("tx", KeyB),
     CallRebuild("tx")}

StepSeq(p) ==
    /\ \/ \E c \in SeqCalls : Start(p, c)
       \/ InsAppend(p)
       \/ InsIndex(p)
       \/ FbIndex(p)
       \/ FbRead(p)
       \/ DelAppend(p)
       \/ DelIndex(p)
       \/ UpdMeta(p)
       \/ UpdAppend(p)
       \/ UpdIndex(p)
       \/ SaIndex(p)
       \/ SaRead(p)
       \/ RbLock(p)
       \/ CtLock(p)
       \/ CtFile(p)
       \/ CtOrphan(p)
       \/ CtSave(p)
       \/ Done(p)
    /\ UNCHANGED storageMutex

NextSeq == StepSeq(1) \/ Restart

SpecSeq == Init /\ [][NextSeq]_vars

(***************************************************************************)
(* SpecLive: a sequential series of createTable, insert, update, delete,   *)
(* lookup and scanAll calls in one run of the process.                     *)
(***************************************************************************)
LiveCalls == SeqCalls \ {CallRebuild("tx")}

StepLive(p) ==
    /\ \/ \E c \in LiveCalls : Start(p, c)
       \/ InsAppend(p)
       \/ InsIndex(p)
       \/ FbIndex(p)
       \/ FbRead(p)
       \/ DelAppend(p)
       \/ DelIndex(p)
       \/ UpdMeta(p)
       \/ UpdAppend(p)
       \/ UpdIndex(p)
       \/ SaIndex(p)
       \/ SaRead(p)
       \/ CtLock(p)
       \/ CtFile(p)
       \/ CtOrphan(p)
       \/ CtSave(p)
       \/ Done(p)
    /\ UNCHANGED storageMutex

NextLive == StepLive(1)

SpecLive == Init /\ [][NextLive]_vars

(***************************************************************************)
(* SpecInserts: callers concurrently inserting rows with pairwise distinct *)
(* keys into one table, which createTable may register at any moment.      *)
(***************************************************************************)
InsertCalls ==
    {CallInsert("tx", <<KeyA, Flag1>>),
     CallInsert("tx", <<KeyB, Flag1, ValX>>),
     CallInsert("tx", <<ValX, Flag1>>),
     CallInsert("tx", <<ValY, Flag1, ValX, ValY>>)}

KeyUnused(c) ==
    /\ \A i \in 1..Len(Written(c.t)) : Written(c.t)[i].row[1] # c.row[1]
    /\ \A q \in Procs : ~(call[q].op = "insert" /\ call[q].row[1] = c.row[1])

StepInserts(p) ==
    /\ \/ \E c \in InsertCalls : KeyUnused(c) /\ Start(p, c)
       \/ Start(p, CallCreateTable("tx", <<ColK>>))
       \/ InsAppend(p)
       \/ InsIndex(p)
       \/ CtLock(p)
       \/ CtFile(p)
       \/ CtOrphan(p)
       \/ CtSave(p)
       \/ Done(p)
    /\ UNCHANGED storageMutex

NextInserts == \E p \in Procs : StepInserts(p)

SpecInserts == Init /\ [][NextInserts]_vars

(***************************************************************************)
(* SpecStorage: the storage package called directly by one caller, appends *)
(* of arbitrary rows and reads at the offsets the appends returned.        *)
(***************************************************************************)
StorageRows ==
    {<<>>,
     <<KeyA>>,
     <<KeyA, Flag1>>,
     <<KeyB, Flag0, ValX>>,
     <<<<>>, <<>>>>,
     <<KeyPipe, Flag1>>,
     <<KeyNL, Flag1>>}

StorageCalls ==
    {CallAppendRow("tx", r) : r \in StorageRows}
       \cup {CallReadRow("tx", Written("tx")[i].off) : i \in 1..Len(Written("tx"))}

StepStorage(p) ==
    /\ \/ \E c \in StorageCalls : Start(p, c)
       \/ StAppend(p)
       \/ StRead(p)
       \/ Done(p)
    /\ UNCHANGED storageMutex

NextStorage == StepStorage(1)

SpecStorage == Init /\ [][NextStorage]_vars

(***************************************************************************)
(* SpecReplay: the process starts on a data directory that holds an        *)
(* arbitrary log for table tx, with or without its metadata, and replays   *)
(* it: at start (Recover, LoadIndex), by RebuildIndex, or by createTable   *)
(* finding the file.                                                       *)
(***************************************************************************)
MaxLines == 3

LineBodies ==
    {<<"a", Pipe, "1">>,
     <<"a", Pipe, "0">>,
     <<"b", Pipe, "1", Pipe, "x">>,
     <<"a">>}

LineEnds == {<<NL>>, <<CR, NL>>}

(* A terminated line, or a piece with no terminator (it runs into the next *)
(* piece, or is the unterminated end of the log).                          *)
Pieces == {b \o e : b \in LineBodies, e \in LineEnds} \cup {<<"a", Pipe, "1">>}

RECURSIVE Concat(_)
Concat(ss) == IF ss = <<>> THEN <<>> ELSE Head(ss) \o Concat(Tail(ss))

ReplayLogs == {Concat(ss) : ss \in UNION {[1..n -> Pieces] : n \in 0..MaxLines}}

InitReplay ==
    /\ \E log \in ReplayLogs : files = [t \in {"tx"} |-> log]
    /\ metaFile \in {<<>>, [t \in {"tx"} |-> <<ColK>>]}
    /\ Tables = <<>>
    /\ Indexes = <<>>
    /\ mu = 0
    /\ storageMutex = [p \in Procs |-> ""]
    /\ pc = [p \in Procs |-> "idle"]
    /\ call = [p \in Procs |-> NoCall]
    /\ ret = [p \in Procs |-> NoResult]
    /\ written = <<>>
    /\ deleted = {}

ReplayCalls == {CallCreateTable("tx", <<ColK>>), CallRebuild("tx")}

StepReplay(p) ==
    /\ \/ \E c \in ReplayCalls : Start(p, c)
       \/ RbLock(p)
       \/ CtLock(p)
       \/ CtFile(p)
       \/ CtOrphan(p)
       \/ CtSave(p)
       \/ Done(p)
    /\ UNCHANGED storageMutex

NextReplay == StepReplay(1) \/ Restart

SpecReplay == InitReplay /\ [][NextReplay]_vars

(***************************************************************************)
(* SpecRace: lookups running concurrently with inserts and deletes of the  *)
(* same keys, in one run of the process.                                   *)
(***************************************************************************)
RaceCalls ==
    {CallCreateTable("tx", <<ColK>>),
     CallInsert("tx", <<KeyA, Flag1>>),
     CallInsert("tx", <<KeyA, Flag1, ValX, ValY>>),
     CallInsert("tx", <<KeyNL, Flag1>>),
     CallLookup("tx", KeyA),
     CallLookup("tx", KeyNL),
     CallDelete("tx", KeyA),
     CallDelete("tx", KeyNL)}

StepRace(p) ==
    /\ \/ \E c \in RaceCalls : Start(p, c)
       \/ InsAppend(p)
       \/ InsIndex(p)
       \/ FbIndex(p)
       \/ FbRead(p)
       \/ DelAppend(p)
       \/ DelIndex(p)
       \/ CtLock(p)
       \/ CtFile(p)
       \/ CtOrphan(p)
       \/ CtSave(p)
       \/ Done(p)
    /\ UNCHANGED storageMutex

NextRace == \E p \in Procs : StepRace(p)

SpecRace == Init /\ [][NextRace]_vars

(***************************************************************************)
(* SpecCreate: concurrent createTable calls with one name and different    *)
(* columns, among inserts into that table (of new keys, of existing keys,  *)
(* of rows too short), in one run of the process.                          *)
(***************************************************************************)
CreateCalls ==
    {CallCreateTable("tx", <<ColK>>),
     CallCreateTable("tx", <<ColK, ColV>>),
     CallInsert("tx", <<KeyA, Flag1>>),
     CallInsert("tx", <<KeyA, Flag1, ValY>>),
     CallInsert("tx", <<KeyB, Flag1, ValX>>),
     CallInsert("tx", <<KeyA>>),
     CallInsert("tx", <<>>)}

StepCreate(p) ==
    /\ \/ \E c \in CreateCalls : Start(p, c)
       \/ InsAppend(p)
       \/ InsIndex(p)
       \/ CtLock(p)
       \/ CtFile(p)
       \/ CtOrphan(p)
       \/ CtSave(p)
       \/ Done(p)
    /\ UNCHANGED storageMutex

NextCreate == \E p \in Procs : StepCreate(p)

SpecCreate == Init /\ [][NextCreate]_vars

(***************************************************************************)
(* SpecRecover: the process starts on a data directory whose metadata      *)
(* lists none, one or two tables, each log missing or present, and main    *)
(* runs Recover (line 102 of main.go) while opening or reading a log may   *)
(* fail; then lookups are served.                                          *)
(***************************************************************************)
RecoverLogs ==
    {<<>>,
     EncodeLine(<<KeyA, Flag1>>),
     EncodeLine(<<KeyA, Flag1>>) \o EncodeLine(<<KeyB, Flag1>>),
     EncodeLine(<<KeyA, Flag1>>) \o EncodeLine(<<KeyA, Flag0>>)}

RecoverTables == {"tx", "ty"}

(* The reader fails at the start, at the end of the first record or five   *)
(* bytes into the second.                                                  *)
Faults ==
    {[kind |-> "none", n |-> 0], [kind |-> "open", n |-> 0]}
        \cup {[kind |-> "read", n |-> n] :
                 n \in {0, Len(EncodeLine(<<KeyA, Flag1>>)),
                        Len(EncodeLine(<<KeyA, Flag1>>)) + 5}}

InitRecover ==
    /\ \E S \in SUBSET RecoverTables : files \in [S -> RecoverLogs]
    /\ \E S \in SUBSET RecoverTables : metaFile = [t \in S |-> <<ColK>>]
    /\ Tables = <<>>
    /\ Indexes = <<>>
    /\ mu = 0
    /\ storageMutex = [p \in Procs |-> ""]
    /\ pc = [p \in Procs |-> IF p = 1 THEN "rc_meta" ELSE "idle"]
    /\ call = [p \in Procs |-> IF p = 1 THEN CallRecover ELSE NoCall]
    /\ ret = [p \in Procs |-> NoResult]
    /\ written = <<>>
    /\ deleted = {}

RecoverCalls == {CallLookup("tx", KeyA), CallLookup("ty", KeyB)}

StepRecover(p) ==
    /\ \/ RcMeta(p)
       \/ RcLoad(p, Faults)
       \/ \E c \in RecoverCalls : Start(p, c)
       \/ FbIndex(p)
       \/ FbRead(p)
       \/ Done(p)
    /\ UNCHANGED storageMutex

NextRecover == StepRecover(1)

SpecRecover == InitRecover /\ [][NextRecover]_vars

(***************************************************************************)
(* SpecSelect: one caller filtering by column, on a registered table with  *)
(* rows of two and three fields whose values differ by case, on a name     *)
(* that has an Index but no metadata, and on unknown names and columns.    *)
(***************************************************************************)
ValUpperB == <<"B">>

SelectCalls ==
    {CallCreateTable("tx", <<ColK, ColV>>),
     CallInsert("tx", <<KeyA, Flag1, KeyB>>),
     CallInsert("tx", <<KeyB, Flag1, ValUpperB>>),
     CallInsert("tx", <<KeyB, Flag1, ValY>>),
     CallInsert("tx", <<KeyA, Flag1>>),
     CallInsert("ty", <<KeyA, Flag1, KeyB>>),
     CallSelectByColumn("tx", <<"V">>, KeyB),
     CallSelectByColumn("tx", <<"v">>, ValUpperB),
     CallSelectByColumn("tx", <<"K">>, KeyA),
     CallSelectByColumn("tx", <<"x">>, KeyA),
     CallSelectByColumn("ty", <<"k">>, KeyA)}

StepSelect(p) ==
    /\ \/ \E c \in SelectCalls : Start(p, c)
       \/ InsAppend(p)
       \/ InsIndex(p)
       \/ SbcMeta(p)
       \/ SaIndex(p)
       \/ SaRead(p)
       \/ CtLock(p)
       \/ CtFile(p)
       \/ CtOrphan(p)
       \/ CtSave(p)
       \/ Done(p)
    /\ UNCHANGED storageMutex

NextSelect == StepSelect(1)

SpecSelect == Init /\ [][NextSelect]_vars

(***************************************************************************)
(* SpecFaults: one caller creating tables, inserting and looking up while  *)
(* the creation of the log and the save of the metadata can fail.          *)
(***************************************************************************)
FaultCalls ==
    {CallCreateTable("tx", <<ColK>>),
     CallCreateTable("tx", <<ColK, ColV>>),
     CallCreateTable("ty", <<ColK>>),
     CallInsert("tx", <<KeyA, Flag1, ValX>>),
     CallInsert("tx", <<KeyB, Flag1, ValY>>),
     CallLookup("tx", KeyA),
     CallLookup("tx", KeyB)}

StepFaults(p) ==
    /\ \/ \E c \in FaultCalls : Start(p, c)
       \/ InsAppend(p)
       \/ InsIndex(p)
       \/ FbIndex(p)
       \/ FbRead(p)
       \/ CtLock(p)
       \/ \E fault \in CreateFaults : CtFileIO(p, fault)
       \/ CtOrphan(p)
       \/ \E fault \in SaveFaults : CtSaveIO(p, fault)
       \/ Done(p)
    /\ UNCHANGED storageMutex

NextFaults == StepFaults(1)

SpecFaults == Init /\ [][NextFaults]_vars

(***************************************************************************)
(* SpecAppends: two callers of storage.AppendRow on two tables, the mutex  *)
(* visible, with rows whose key holds a newline, alone or after a carriage *)
(* return.                                                                 *)
(***************************************************************************)
KeyCRNL == <<"a", CR, NL, "b">>

AppendRows ==
    {<<KeyA, Flag1>>,
     <<KeyB, Flag1, ValX>>,
     <<KeyNL, Flag1>>,
     <<KeyCRNL, Flag1>>}

AppendCalls == {CallAppendRow(t, r) : t \in {"tx", "ty"}, r \in AppendRows}

StepAppends(p) ==
    \/ /\ \/ \E c \in AppendCalls : Start(p, c)
          \/ Done(p)
       /\ UNCHANGED storageMutex
    \/ SmLock(p)
    \/ StSeek(p)
    \/ StWrite(p)

NextAppends == \E p \in Procs : StepAppends(p)

SpecAppends == Init /\ [][NextAppends]_vars

(***************************************************************************)
(* SpecLoops: the replays of SpecReplay on logs that also hold a line with *)
(* a flag other than "0" and "1", with inserts in between, so that the     *)
(* Index a replay finds is not the one a replay left.                      *)
(***************************************************************************)
LoopLogs ==
    {Concat(ss) : ss \in UNION {[1..n -> Pieces \cup {<<"b", Pipe, "2", NL>>}] :
                                   n \in 0..MaxLines}}

InitLoops ==
    /\ \E log \in LoopLogs : files = [t \in {"tx"} |-> log]
    /\ metaFile \in {<<>>, [t \in {"tx"} |-> <<ColK>>]}
    /\ Tables = <<>>
    /\ Indexes = <<>>
    /\ mu = 0
    /\ storageMutex = [p \in Procs |-> ""]
    /\ pc = [p \in Procs |-> "idle"]
    /\ call = [p \in Procs |-> NoCall]
    /\ ret = [p \in Procs |-> NoResult]
    /\ written = <<>>
    /\ deleted = {}

LoopCalls ==
    {CallCreateTable("tx", <<ColK>>),
     CallRebuild("tx"),
     CallInsert("tx", <<<<"c">>, Flag1>>)}

StepLoops(p) ==
    /\ \/ \E c \in LoopCalls : Start(p, c)
       \/ InsAppend(p)
       \/ InsIndex(p)
       \/ RbLock(p)
       \/ CtLock(p)
       \/ CtFile(p)
       \/ CtOrphan(p)
       \/ CtSave(p)
       \/ Done(p)
    /\ UNCHANGED storageMutex

NextLoops == StepLoops(1) \/ Restart

SpecLoops == InitLoops /\ [][NextLoops]_vars

(***************************************************************************)
(* SpecUpdate: a sequential series of updates of rows shorter than, as     *)
(* long as and longer than the schema, active or not, by no, one or two    *)
(* column names in either case, declared or not, on a table of no, one or  *)
(* two columns.                                                            *)
(***************************************************************************)
UpdateCalls ==
    {CallCreateTable("tx", <<>>),
     CallCreateTable("tx", <<ColK>>),
     CallCreateTable("tx", <<ColK, ColV>>),
     CallInsert("tx", <<KeyA, Flag1, ValX, ValY>>),
     CallInsert("tx", <<KeyA, Flag0, ValX>>),
     CallInsert("tx", <<KeyA, Flag1>>),
     CallInsert("tx", <<KeyB, Flag1, ValX>>),
     CallUpdate("tx", KeyA, << <<<<"K">>, KeyB>> >>),
     CallUpdate("tx", KeyA, << <<<<"V">>, ValY>> >>),
     CallUpdate("tx", KeyA, << <<<<"v">>, ValY>>, <<<<"k">>, KeyB>> >>),
     CallUpdate("tx", KeyA, << <<<<"v">>, ValY>>, <<<<"V">>, KeyB>> >>),
     CallUpdate("tx", KeyA, << <<<<"V">>, KeyB>>, <<<<"v">>, ValY>> >>),
     CallUpdate("tx", KeyA, << <<<<"x">>, ValY>> >>),
     CallUpdate("tx", KeyA, << <<<<"k">>, KeyB>>, <<<<"x">>, ValY>> >>),
     CallUpdate("tx", KeyA, << <<<<"x">>, ValY>>, <<<<"k">>, KeyB>> >>),
     CallUpdate("tx", KeyA, <<>>),
     CallUpdate("tx", KeyB, << <<<<"v">>, ValX>> >>)}

StepUpdate(p) ==
    /\ \/ \E c \in UpdateCalls : Start(p, c)
       \/ InsAppend(p)
       \/ InsIndex(p)
       \/ FbIndex(p)
       \/ FbRead(p)
       \/ UpdMeta(p)
       \/ UpdAppend(p)
       \/ UpdIndex(p)
       \/ CtLock(p)
       \/ CtFile(p)
       \/ CtOrphan(p)
       \/ CtSave(p)
       \/ Done(p)
    /\ UNCHANGED storageMutex

NextUpdate == StepUpdate(1)

SpecUpdate == Init /\ [][NextUpdate]_vars

(***************************************************************************)
(* SpecLocks: concurrent callers of the seven operations, with the         *)
(* storage mutex taken and released in steps of its own.  The fairness is  *)
(* strong fairness of every caller's steps, SF_vars(ProgressLocks(p)),     *)
(* with the enabling condition written out as Runnable(p): a caller that   *)
(* can again and again take its next step eventually takes it (the Go      *)
(* scheduler runs every runnable goroutine, and sync.RWMutex hands the     *)
(* lock to a waiting goroutine: a waiting writer holds new readers back,   *)
(* and a mutex waiter starved for 1 ms gets the lock next).                *)
(***************************************************************************)
LockCalls ==
    {CallCreateTable("tx", <<ColK>>),
     CallCreateTable("tx", <<>>),
     CallInsert("tx", <<KeyA, Flag1>>),
     CallLookup("tx", KeyA),
     CallScanAll("tx"),
     CallUpdate("tx", KeyA, << <<<<"k">>, KeyA>> >>),
     CallDelete("tx", KeyA),
     CallSelectByColumn("tx", <<"k">>, KeyA)}

(* The steps of a call under way.                                          *)
ProgressLocks(p) ==
    \/ /\ \/ InsIndex(p)
          \/ FbIndex(p)
          \/ DelIndex(p)
          \/ UpdMeta(p)
          \/ UpdIndex(p)
          \/ SbcMeta(p)
          \/ SaIndex(p)
          \/ (call[p].records = <<>> /\ SaRead(p))
          \/ CtLock(p)
          \/ CtOrphan(p)
          \/ CtSave(p)
       /\ UNCHANGED storageMutex
    \/ SmLock(p)
    \/ SmSection(p)

StepLocks(p) ==
    \/ /\ \E c \in LockCalls : Start(p, c)
       /\ UNCHANGED storageMutex
    \/ ProgressLocks(p)
    \/ (Done(p) /\ UNCHANGED storageMutex)

NextLocks == \E p \in Procs : StepLocks(p)

FairLocks(p) == []<>Runnable(p) => []<><<ProgressLocks(p)>>_vars

SpecLocks ==
    /\ Init /\ [][NextLocks]_vars
    /\ \A p \in Procs : FairLocks(p) /\ SF_vars(SmLock(p))

(***************************************************************************)
(* SpecTamper: one caller appends rows and reads them back through the     *)
(* storage package; between two calls one byte of the data portion of one  *)
(* persisted record may be changed from outside, once.                     *)
(***************************************************************************)
TamperRows ==
    {<<KeyA>>,
     <<KeyA, Flag1>>,
     <<KeyB, Flag0, ValX>>,
     <<<<"a", "b">>, Flag1>>}

TamperBytes == {"a", "x", "1", Pipe, NL, CR}

TamperCalls ==
    {CallAppendRow("tx", r) : r \in TamperRows}
       \cup {CallReadRow("tx", Written("tx")[i].off) : i \in 1..Len(Written("tx"))}

(* The log of t is exactly what the appends wrote.                         *)
RECURSIVE EncodeAll(_)
EncodeAll(w) == IF w = <<>> THEN <<>> ELSE EncodeLine(Head(w).row) \o EncodeAll(Tail(w))

Untouched(t) == FileBytes(files, t) = EncodeAll(Written(t))

(* Byte j of the data portion of record i of t is overwritten with b.      *)
Tamper ==
    /\ \A p \in Procs : pc[p] = "idle"
    /\ \E t \in DOMAIN files :
          /\ Untouched(t)
          /\ \E i \in 1..Len(Written(t)) :
                \E j \in 1..Len(Join(Written(t)[i].row, Pipe)) :
                   \E b \in TamperBytes :
                      /\ files[t][Written(t)[i].off + j] # b
                      /\ files' = [files EXCEPT ![t][Written(t)[i].off + j] = b]
    /\ UNCHANGED <<metaFile, Tables, Indexes, mu, storageMutex, pc, call, ret,
                   written, deleted>>

StepTamper(p) ==
    /\ \/ \E c \in TamperCalls : Start(p, c)
       \/ StAppend(p)
       \/ StRead(p)
       \/ Done(p)
    /\ UNCHANGED storageMutex

NextTamper == StepTamper(1) \/ Tamper

SpecTamper == Init /\ [][NextTamper]_vars

(***************************************************************************)
(* Properties.                                                             *)
(***************************************************************************)
HasByte(s, c) == \E i \in 1..Len(s) : s[i] = c

(* A row the line format can carry: its fields hold neither the field      *)
(* delimiter nor the line terminator.                                      *)
NoDelimiter(row) == \A i \in 1..Len(row) : ~HasByte(row[i], Pipe)
NoNewline(row) == \A i \in 1..Len(row) : ~HasByte(row[i], NL)
CleanRow(row) == NoDelimiter(row) /\ NoNewline(row)

(* Every record appended so far is an engine row (key, flag "1" or "0",    *)
(* columns) with clean fields.                                             *)
CleanHistory ==
    \A t \in DOMAIN written : \A i \in 1..Len(written[t]) :
        /\ Len(written[t][i].row) >= 2
        /\ CleanRow(written[t][i].row)
        /\ written[t][i].row[2] \in {Flag1, Flag0}

(* The full replay of a table's log from byte 0.                           *)
Replayed(t) == RebuildIndexLoop(ScanLines(FileBytes(files, t)), EmptyIndex, 0)

(* The positions of the appended records of t whose key field is k.        *)
RecordsOf(t, k) == {i \in 1..Len(Written(t)) : Written(t)[i].row[1] = k}
LastRecordOf(t, k) == CHOOSE i \in RecordsOf(t, k) : \A j \in RecordsOf(t, k) : j <= i

(* C1: with all calls completed, replaying a table's full log from byte 0  *)
(* gives exactly the key-to-offset mapping of the live Index.  Stated for  *)
(* histories of clean engine rows only; the code violates it.              *)
C1_ReplayEqualsLiveIndex ==
    (Quiescent /\ CleanHistory) =>
        \A t \in DOMAIN Indexes : Indexes[t] = Replayed(t)

(* C2: with no operation in flight, every key k of an Index maps to the    *)
(* offset of the most recently appended record whose key field is k, that  *)
(* record has flag "1", and no key whose most recent record is a tombstone *)
(* has an entry.  The code violates it.                                    *)
C2_IndexPointsToLatestActive ==
    (Quiescent /\ CleanHistory) =>
        \A t \in DOMAIN Indexes : \A k \in DOMAIN Indexes[t] :
            /\ RecordsOf(t, k) # {}
            /\ Written(t)[LastRecordOf(t, k)].off = Indexes[t][k]
            /\ Written(t)[LastRecordOf(t, k)].row[2] = Flag1

(* The bytes of t's log that start at offset off, n of them.               *)
BytesAt(t, off, n) == SubSeq(FileBytes(files, t), off + 1, off + n)

(* The insert of record i of t has returned: no caller is still between    *)
(* its append and its Index update.                                        *)
InsertReturned(t, i) ==
    \A p \in Procs :
        ~(pc[p] = "ins_index" /\ call[p].t = t /\ call[p].row = Written(t)[i].row)

(* C3: when callers concurrently insert rows with pairwise distinct keys,  *)
(* every insert that has returned has its key in the Index, mapped to the  *)
(* offset where its own record starts in the log, and no two keys share an *)
(* offset; in particular so once all calls have returned.  The Index is    *)
(* looked at while no createTable holds db.mu in the middle of filling it. *)
C3_ConcurrentDistinctInserts ==
    mu = 0 =>
    \A t \in DOMAIN written :
        /\ \A i \in 1..Len(written[t]) :
              InsertReturned(t, i) =>
                 LET r == written[t][i]
                 IN  /\ t \in DOMAIN Indexes
                     /\ r.row[1] \in DOMAIN Indexes[t]
                     /\ Indexes[t][r.row[1]] = r.off
                     /\ BytesAt(t, r.off, Len(EncodeLine(r.row))) = EncodeLine(r.row)
        /\ t \in DOMAIN Indexes =>
              \A k1, k2 \in DOMAIN Indexes[t] :
                 k1 # k2 => Indexes[t][k1] # Indexes[t][k2]

(* Two inserts overlap: caller 2 appended first and has not yet updated    *)
(* the Index, caller 1 appended after it and has already returned.         *)
C3_Witness ==
    /\ pc[1] = "done" /\ call[1].op = "insert" /\ ret[1].err = ""
    /\ pc[2] = "ins_index"
    /\ mu = 0
    /\ "tx" \in DOMAIN Indexes
    /\ call[1].row[1] \in DOMAIN Indexes["tx"]
    /\ call[2].offset < Indexes["tx"][call[1].row[1]]

(* C4: once delete(T,k) has returned, and while no insert or update of k   *)
(* has been started since, a lookup of k started now fails with            *)
(* NotFoundError.  The code violates it.                                   *)
C4_DeletedKeyNotFound ==
    CleanHistory =>
        \A d \in deleted :
            FindByID(Indexes, Tables, files, d[1], d[2]).err = "NotFoundError"

(* The first n fields of a row, the whole row when it has n or fewer.      *)
CutTo(row, n) == IF Len(row) > n THEN SubSeq(row, 1, n) ELSE row

(* The step is the return of insert(t, row) by caller p into a created     *)
(* table.                                                                  *)
InsertReturns(p) ==
    /\ pc[p] = "ins_index" /\ pc'[p] = "done"
    /\ call[p].t \in DOMAIN Tables

LookupAfterInsert(p) ==
    LET r == FindByID(Indexes', Tables', files', call[p].t, call[p].row[1])
    IN  /\ r.err = ""
        /\ r.val = CutTo(call[p].row, Len(Tables[call[p].t]) + 2)

(* C5 as stated: for a created table with N columns and any row with at    *)
(* least 2 fields, a lookup of row[0] run right after insert(T,row)        *)
(* returns the row cut to at most N+2 fields.                              *)
C5_AsStated ==
    [][\A p \in Procs : InsertReturns(p) => LookupAfterInsert(p)]_vars

(* C5, amended: the same, for rows none of whose fields holds the          *)
(* delimiter "|" or a newline.                                             *)
C5_InsertThenLookup ==
    [][\A p \in Procs :
          (InsertReturns(p) /\ CleanRow(call[p].row)) => LookupAfterInsert(p)]_vars

(* An insert of a clean row longer than N+2 fields has just returned, and  *)
(* the lookup of its key gives a shorter row.                              *)
C5_Witness ==
    /\ pc[1] = "done" /\ call[1].op = "insert" /\ ret[1].err = ""
    /\ call[1].t \in DOMAIN Tables
    /\ CleanRow(call[1].row)
    /\ Len(call[1].row) > Len(Tables[call[1].t]) + 2
    /\ FindByID(Indexes, Tables, files, call[1].t, call[1].row[1]).val
          = SubSeq(call[1].row, 1, Len(Tables[call[1].t]) + 2)

NoNewlineHistory ==
    \A t \in DOMAIN written : \A i \in 1..Len(written[t]) : NoNewline(written[t][i].row)

(* scanAll(t) has just returned to caller p, the table having an Index.    *)
ScanReturned(p) ==
    /\ pc[p] = "done" /\ call[p].op = "scanAll"
    /\ call[p].t \in DOMAIN Indexes

(* The rows returned are, one for one, what lookup gives for the keys of   *)
(* the Index, and no deleted key is among these keys.                      *)
ScanMatchesIndex(p) ==
    LET t == call[p].t
        keys == DOMAIN Indexes[t]
    IN  /\ ret[p].err = ""
        /\ \E f \in [1..Len(ret[p].val) -> keys] :
              /\ \A k \in keys : \E i \in 1..Len(ret[p].val) : f[i] = k
              /\ \A i, j \in 1..Len(ret[p].val) : f[i] = f[j] => i = j
              /\ \A i \in 1..Len(ret[p].val) :
                    LET r == FindByID(Indexes, Tables, files, t, f[i])
                    IN  r.err = "" /\ ret[p].val[i] = r.val
        /\ \A d \in deleted : d[1] = t => d[2] \notin keys

AppendedRow(p) ==
    IF pc[p] = "del_append" THEN Tombstone(call[p].cur)
    ELSE IF pc[p] = "upd_append" THEN call[p].cur
    ELSE call[p].row

AppendSteps == {"ins_append", "upd_append", "del_append", "st_append"}

AllFiles == DOMAIN files \cup DOMAIN files'

(* C8: every step leaves each log's previous content as a prefix of the    *)
(* new content and removes no log; the content grows only in an append     *)
(* step of insert, update or delete, by exactly one whole record; every    *)
(* other step (createTable on an existing file, lookup, scanAll, replay)   *)
(* leaves it as it was.                                                    *)
C8_AppendOnly ==
    [][\A t \in AllFiles :
          LET old == FileBytes(files, t)
              new == FileBytes(files', t)
          IN  /\ t \in DOMAIN files => t \in DOMAIN files'
              /\ Len(new) >= Len(old)
              /\ SubSeq(new, 1, Len(old)) = old
              /\ new # old =>
                    \E p \in Procs :
                       /\ pc[p] \in AppendSteps /\ pc'[p] # pc[p]
                       /\ call[p].t = t
                       /\ new = old \o EncodeLine(AppendedRow(p))]_vars

(* createTable has called CreateTableFile on a file that exists with       *)
(* records in it: the records are still there.                             *)
C8_Witness ==
    \E p \in Procs :
       /\ pc[p] = "ct_orphan"
       /\ Len(Written(call[p].t)) > 0
       /\ Len(FileBytes(files, call[p].t)) > 0

(* A read at every offset of the Index succeeds, and the offset is the     *)
(* start of an appended record.                                            *)
IndexOffsetsValid ==
    \A t \in DOMAIN Indexes : \A k \in DOMAIN Indexes[t] :
        /\ ReadRow(files, t, Indexes[t][k]).err = ""
        /\ \E i \in 1..Len(Written(t)) :
              /\ Written(t)[i].off = Indexes[t][k]
              /\ BytesAt(t, Indexes[t][k], Len(EncodeLine(Written(t)[i].row)))
                    = EncodeLine(Written(t)[i].row)

(* C9 as stated: in every reachable state, live or after replay, every     *)
(* offset of an Index is the start of a complete, newline-terminated       *)
(* record whose checksum verifies, so that a read there succeeds.          *)
C9_AsStated == IndexOffsetsValid

(* C9, amended: the same, provided no row appended so far has a field      *)
(* holding a newline.                                                      *)
C9_IndexOffsetsValid == NoNewlineHistory => IndexOffsetsValid

(* A replay has put two keys into the Index, from a log of clean rows.     *)
C9_Witness ==
    /\ NoNewlineHistory
    /\ "tx" \in DOMAIN Indexes
    /\ {KeyA, KeyB} \subseteq DOMAIN Indexes["tx"]

(* The lines of a log: the byte runs between line terminators, with the    *)
(* unterminated rest of the log, when there is one, as the last line.      *)
LogLines(log) ==
    LET ps == Split(log, NL)
    IN  IF ps[Len(ps)] = <<>> THEN SubSeq(ps, 1, Len(ps) - 1) ELSE ps

(* The byte offset at which line i starts.                                 *)
RECURSIVE LineStart(_, _)
LineStart(lines, i) ==
    IF i = 1 THEN 0 ELSE LineStart(lines, i - 1) + Len(lines[i - 1]) + 1

(* The Index C6 describes: k is present iff, among the lines with at least *)
(* 2 fields whose field 0 is k and whose field 1 is "1" or "0", the last   *)
(* one has flag "1"; index[k] is that line's start offset.                 *)
ClaimedIndex(log) ==
    LET lines == LogLines(log)
        fields(i) == Split(lines[i], Pipe)
        counts(i) == Len(fields(i)) >= 2 /\ fields(i)[2] \in {Flag1, Flag0}
        of(k) == {i \in 1..Len(lines) : counts(i) /\ fields(i)[1] = k}
        last(k) == CHOOSE i \in of(k) : \A j \in of(k) : j <= i
        keys == {fields(i)[1] : i \in {j \in 1..Len(lines) : counts(j)}}
        live == {k \in keys : fields(last(k))[2] = Flag1}
    IN  [k \in live |-> LineStart(lines, last(k))]

(* Every Index that a replay has filled is the Index C6 describes (while   *)
(* createTable holds db.mu it is still being filled).                      *)
ReplayGivesClaimedIndex ==
    mu = 0 => \A t \in DOMAIN Indexes :
                 Indexes[t] = ClaimedIndex(FileBytes(files, t))

(* No line of any log ends with a carriage return.                         *)
NoLineEndsWithCR ==
    \A t \in DOMAIN files :
        \A i \in 1..Len(LogLines(files[t])) :
            LET l == LogLines(files[t])[i] IN l = <<>> \/ l[Len(l)] # CR

ReadOfAppended(p, i) ==
    /\ pc[p] = "done" /\ call[p].op = "readRow"
    /\ i \in 1..Len(Written(call[p].t))
    /\ Written(call[p].t)[i].off = call[p].offset

ReadGives(p, i) ==
    ret[p].err = "" /\ ret[p].val = Written(call[p].t)[i].row

(* C10 as stated: for every row r whose fields hold no delimiter           *)
(* character (neither "|" nor the line terminator), the read at the offset *)
(* the append of r returned succeeds and returns the fields of r.          *)
C10_AsStated ==
    \A p \in Procs : \A i \in 1..Len(Written(call[p].t)) :
        (ReadOfAppended(p, i) /\ CleanRow(Written(call[p].t)[i].row))
            => ReadGives(p, i)

(* C10, amended: the same for every such row with at least one field.      *)
C10_RoundTrip ==
    \A p \in Procs : \A i \in 1..Len(Written(call[p].t)) :
        (/\ ReadOfAppended(p, i)
         /\ CleanRow(Written(call[p].t)[i].row)
         /\ Len(Written(call[p].t)[i].row) >= 1)
            => ReadGives(p, i)

(* A row of three fields, appended second, was read back.                  *)
C10_Witness ==
    \E p \in Procs :
        /\ ReadOfAppended(p, 2)
        /\ Written(call[p].t)[2].row = <<KeyB, Flag0, ValX>>
        /\ ret[p].val = <<KeyB, Flag0, ValX>>

(* The bytes now standing where the data portion of record i of t was      *)
(* written, and whether they differ from what was written.                 *)
DataPortion(t, i) ==
    BytesAt(t, Written(t)[i].off, Len(Join(Written(t)[i].row, Pipe)))

DataChanged(t, i) == DataPortion(t, i) # Join(Written(t)[i].row, Pipe)

(* A read at the offset of record i, whose data portion was changed, has   *)
(* returned to caller p.                                                   *)
ReadOfChanged(p, i) == ReadOfAppended(p, i) /\ DataChanged(call[p].t, i)

CutShort(t, i) ==
    LET d == DataPortion(t, i)
    IN  /\ HasByte(d, NL)
        /\ Len(Split(SubSeq(d, 1, IndexByte(d, NL) - 1), Pipe)) < 2

DeleteInFlight(p) ==
    \E q \in Procs \ {p} :
       /\ call[q].op = "delete" /\ call[q].t = call[p].t /\ call[q].id = call[p].id
       /\ pc[q] \notin {"idle", "done"}

(* Row v is an appended record of key k of table t, whole or cut to the    *)
(* schema width.                                                           *)
IsRecordOf(v, t, k, off) ==
    \E i \in 1..Len(Written(t)) :
       /\ Written(t)[i].row[1] = k
       /\ off >= 0 => Written(t)[i].off = off
       /\ \/ v = Written(t)[i].row
          \/ t \in DOMAIN Tables /\ v = CutTo(Written(t)[i].row, Len(Tables[t]) + 2)

(* A lookup that has read the offset of its key reads, whenever it gets to *)
(* the file, the record that was indexed at that offset; one that has      *)
(* returned failed with NotFoundError or returned a record of its key.     *)
LookupRaceFree(p) ==
    /\ pc[p] = "fb_read" =>
          LET r == FindRead(files, call[p])
          IN  r.err = "" /\ IsRecordOf(r.val, call[p].t, call[p].id, call[p].offset)
    /\ pc[p] = "done" =>
          \/ ret[p].err = "NotFoundError"
          \/ ret[p].err = "" /\ IsRecordOf(ret[p].val, call[p].t, call[p].id, -1)

(* C12 as stated: a lookup(T,k) running concurrently with a delete(T,k)    *)
(* either fails with NotFoundError or returns a row that was the indexed,  *)
(* checksum-valid record of k; never another error, never a record of      *)
(* another key.                                                            *)
C12_AsStated ==
    \A p \in Procs :
        (call[p].op = "lookup" /\ DeleteInFlight(p)) => LookupRaceFree(p)

(* C12, amended: the same, provided no appended row has a field holding a  *)
(* newline; it holds of every lookup, with or without a concurrent delete. *)
C12_LookupDuringDelete ==
    NoNewlineHistory => \A p \in Procs : call[p].op = "lookup" => LookupRaceFree(p)

(* A lookup has read the offset of its key; since then a delete of the key *)
(* has appended its tombstone, removed the key and returned; the lookup    *)
(* has still to read the file.                                             *)
C12_Witness ==
    \E p \in Procs :
       /\ NoNewlineHistory
       /\ call[p].op = "lookup" /\ pc[p] = "fb_read"
       /\ <<call[p].t, call[p].id>> \in deleted
       /\ call[p].id \notin DOMAIN Indexes[call[p].t]

(* C13: a createTable on a registered name fails with AlreadyExistsError   *)
(* and changes neither the registered columns nor the Index nor the log;   *)
(* one on a free name registers its own columns; registered columns never  *)
(* change afterwards and every call that registered returns success with   *)
(* its columns still registered: of concurrent calls with one name exactly *)
(* one succeeds and the schema is that call's.                             *)
C13_CreateTableOnce ==
    [][/\ \A p \in Procs :
             (pc[p] = "ct_lock" /\ pc'[p] # "ct_lock") =>
                IF call[p].t \in DOMAIN Tables
                THEN /\ pc'[p] = "done" /\ ret'[p].err = "AlreadyExistsError"
                     /\ Tables' = Tables /\ Indexes' = Indexes /\ files' = files
                ELSE /\ pc'[p] = "ct_file"
                     /\ Tables'[call[p].t] = call[p].cols
       /\ \A t \in DOMAIN Tables : t \in DOMAIN Tables' /\ Tables'[t] = Tables[t]
       /\ \A p \in Procs :
             (call[p].op = "createTable" /\ pc[p] # "done" /\ pc'[p] = "done"
                 /\ ret'[p].err # "AlreadyExistsError") =>
                /\ pc[p] = "ct_save" /\ ret'[p].err = ""
                /\ Tables'[call[p].t] = call[p].cols]_vars

(* Caller 1 has registered the table with its columns and has not yet      *)
(* returned; caller 2, with other columns, has already been refused.       *)
C13_Witness ==
    /\ pc[1] = "ct_save" /\ call[1].op = "createTable"
    /\ pc[2] = "done" /\ call[2].op = "createTable"
    /\ call[2].t = call[1].t /\ call[2].cols # call[1].cols
    /\ ret[2].err = "AlreadyExistsError"
    /\ Tables[call[1].t] = call[1].cols
    /\ Len(Written(call[1].t)) > 0

(* A lookup or scanAll that has returned.                                  *)
ReadCallDone(p) == pc[p] = "done" /\ call[p].op \in {"lookup", "scanAll"}

(* C14 as stated: lookup and scanAll on a name that createTable never      *)
(* registered fail with NotFoundError.  In a run without restart the       *)
(* registered names only grow, so a name outside Tables was never          *)
(* registered.  The code violates it: insert gives such a name an Index.   *)
C14_AsStated ==
    \A p \in Procs :
        (ReadCallDone(p) /\ call[p].t \notin DOMAIN Tables) =>
            ret[p].err = "NotFoundError"

(* C14, amended: lookup and scanAll on a name that has no Index fail with  *)
(* NotFoundError, and a name that was never registered and never inserted  *)
(* into has no Index.                                                      *)
C14_UnknownTableNotFound ==
    /\ \A p \in Procs :
          (ReadCallDone(p) /\ call[p].t \notin DOMAIN Indexes) =>
              ret[p].err = "NotFoundError"
    /\ \A p \in Procs :
          (call[p] # NoCall /\ call[p].t \notin DOMAIN Tables
              /\ Written(call[p].t) = <<>>) =>
              call[p].t \notin DOMAIN Indexes

(* A lookup on a name that has neither metadata nor an Index has been     *)
(* refused.                                                                *)
C14_Witness ==
    /\ ReadCallDone(1) /\ call[1].op = "lookup"
    /\ call[1].t \notin DOMAIN Indexes
    /\ call[1].t \notin DOMAIN Tables
    /\ ret[1].err = "NotFoundError"

(* Key k has no entry in the Index of table t, or t has no Index.          *)
AbsentFromIndex(t, k) == t \notin DOMAIN Indexes \/ k \notin DOMAIN Indexes[t]

(* C15: an update or delete that finds its key absent from the table's     *)
(* Index (or the table without an Index) returns NotFoundError at once,    *)
(* and the log and the Index are as they were (a call cut off by the       *)
(* process stopping returns nothing).                                      *)
C15_AbsentKeyRejected ==
    [][\A p \in Procs :
          (/\ call[p].op \in {"update", "delete"}
           /\ pc[p] = "fb_index" /\ pc'[p] \notin {"fb_index", "idle"}
           /\ AbsentFromIndex(call[p].t, call[p].id)) =>
              /\ pc'[p] = "done"
              /\ ret'[p].err = "NotFoundError"
              /\ files' = files
              /\ Indexes' = Indexes]_vars

(* A delete of a key that an earlier delete removed has been refused,     *)
(* with two records (the row and its tombstone) in the log.                *)
C15_Witness ==
    /\ pc[1] = "done" /\ call[1].op = "delete"
    /\ <<call[1].t, call[1].id>> \in deleted
    /\ AbsentFromIndex(call[1].t, call[1].id)
    /\ ret[1].err = "NotFoundError"
    /\ Len(Written(call[1].t)) = 2

(* C16: an insert of a row with fewer than 2 fields returns                *)
(* ValidationError in its first step, with the logs and the Index as they  *)
(* were.  An insert of 2 or more fields appends exactly the one encoded    *)
(* record of its row at the end of the log, then sets the Index entry of   *)
(* row[0] to the offset where that record starts and returns success,      *)
(* whether or not the key had an entry; the log is not touched by that     *)
(* step, so an earlier record of the key stays.                            *)
C16_InsertValidatesThenRepoints ==
    [][\A p \in Procs :
          /\ (pc[p] = "idle" /\ pc'[p] # "idle" /\ call'[p].op = "insert"
                 /\ Len(call'[p].row) < 2) =>
                /\ pc'[p] = "done" /\ ret'[p].err = "ValidationError"
                /\ files' = files /\ Indexes' = Indexes
          /\ (pc[p] = "idle" /\ pc'[p] # "idle" /\ call'[p].op = "insert"
                 /\ Len(call'[p].row) >= 2) =>
                /\ pc'[p] = "ins_append"
                /\ files' = files /\ Indexes' = Indexes
          /\ (pc[p] = "ins_append" /\ pc'[p] # "ins_append") =>
                /\ pc'[p] = "ins_index"
                /\ FileBytes(files', call[p].t)
                      = FileBytes(files, call[p].t) \o EncodeLine(call[p].row)
                /\ \A t \in AllFiles \ {call[p].t} :
                      FileBytes(files', t) = FileBytes(files, t)
                /\ call'[p].offset = Len(FileBytes(files, call[p].t))
                /\ Indexes' = Indexes
          /\ (pc[p] = "ins_index" /\ pc'[p] # "ins_index") =>
                /\ pc'[p] = "done" /\ ret'[p].err = ""
                /\ call[p].t \in DOMAIN Indexes'
                /\ call[p].row[1] \in DOMAIN Indexes'[call[p].t]
                /\ Indexes'[call[p].t][call[p].row[1]] = call[p].offset
                /\ BytesAt(call[p].t, call[p].offset, Len(EncodeLine(call[p].row)))
                      = EncodeLine(call[p].row)
                /\ files' = files]_vars

(* An insert of a key that already had a record has returned success: the  *)
(* Index entry of the key is the offset of the later record and the        *)
(* earlier record is still at the start of the log.                        *)
C16_Witness ==
    /\ pc[1] = "done" /\ call[1].op = "insert" /\ ret[1].err = ""
    /\ Len(Written("tx")) >= 2
    /\ Written("tx")[1].row[1] = call[1].row[1]
    /\ Written("tx")[2].row = call[1].row
    /\ Written("tx")[1].row # call[1].row
    /\ "tx" \in DOMAIN Indexes /\ call[1].row[1] \in DOMAIN Indexes["tx"]
    /\ Indexes["tx"][call[1].row[1]] = Written("tx")[2].off
    /\ Written("tx")[2].off > 0
    /\ BytesAt("tx", 0, Len(EncodeLine(Written("tx")[1].row)))
          = EncodeLine(Written("tx")[1].row)

(* Recover has returned to main.                                           *)
RecoverDone(p) == pc[p] = "done" /\ call[p].op = "recover"

(* C17: when Recover has returned, it returned no error (the start goes    *)
(* on), every table of the metadata was handled, a table whose log is      *)
(* missing has an empty Index and no error, and every table whose log met  *)
(* another failure, on open or on read, has an error reported.  The code   *)
(* violates the last part: a log that exists and cannot be opened is       *)
(* taken for a new table, without error.                                   *)
C17_RecoveryErrors ==
    \A p \in Procs :
        RecoverDone(p) =>
            /\ ret[p].err = ""
            /\ {ret[p].val[i].t : i \in 1..Len(ret[p].val)} = DOMAIN metaFile
            /\ \A i \in 1..Len(ret[p].val) :
                  LET e == ret[p].val[i]
                  IN  /\ e.missing =>
                            (e.err = "" /\ Indexes[e.t] = EmptyIndex)
                      /\ (~e.missing /\ e.fault # "none") => e.err # ""

(* The class of an HTTP status: 2 success, 4 client failure, 5 server      *)
(* failure.                                                                *)
StatusClass(code) == code \div 100

ClientErrors == {"ValidationError", "NotFoundError", "AlreadyExistsError"}
ServerErrors == {"IntegrityError", "IOError"}

(* C19: the response to a call that returned a validation, not-found or    *)
(* already-exists error has a client-failure status, and the response to   *)
(* one that returned an integrity or I/O error has a server-failure        *)
(* status.  The code violates it: every error is answered with the status  *)
(* of a success.                                                           *)
C19_StatusByErrorClass ==
    \A p \in Procs :
        pc[p] = "done" =>
            /\ ret[p].err \in ClientErrors =>
                  StatusClass(handleSQL(ret[p]).status) = 4
            /\ ret[p].err \in ServerErrors =>
                  StatusClass(handleSQL(ret[p]).status) = 5

(* The row position (counted from 1) that an update of declared column i   *)
(* (counted from 1) replaces: the key for the first column, else the       *)
(* position after the active flag.                                         *)
UpdatePosition(i) == IF i = 1 THEN 1 ELSE i + 1

(* The values that updates give for row position j under the declared      *)
(* columns.                                                                *)
UpdateValues(columns, updates, j) ==
    {updates[u][2] : u \in {u \in 1..Len(updates) :
        \E i \in 1..Len(columns) :
            /\ EqualFold(ColumnName(columns[i]), updates[u][1])
            /\ UpdatePosition(i) = j}}

(* newRow is the row that the claim describes for the current row cur.     *)
IsUpdatedRow(newRow, cur, columns, updates) ==
    /\ Len(newRow) = Len(columns) + 1
    /\ \A j \in 1..Len(newRow) :
          IF UpdateValues(columns, updates, j) # {}
          THEN newRow[j] \in UpdateValues(columns, updates, j)
          ELSE IF j = 2 THEN newRow[j] = Flag1
          ELSE newRow[j] = cur[j]

(* C20: an update that succeeds has built, from the data fields of the     *)
(* record that the Index gives for its key, the row described above; it    *)
(* has appended exactly the one encoded record of that row at the end of   *)
(* the log, leaving what was there; and it returns on setting the Index    *)
(* entry of its key to the offset of that record.                          *)
C20_UpdateAppendsNewVersion ==
    [][\A p \in Procs :
          /\ (pc[p] = "upd_meta" /\ pc'[p] = "upd_append") =>
                IsUpdatedRow(call'[p].cur,
                             ReadRow(files, call[p].t,
                                     Indexes[call[p].t][call[p].id]).val,
                             Tables[call[p].t], call[p].updates)
          /\ (pc[p] = "upd_append" /\ pc'[p] # "upd_append") =>
                /\ pc'[p] = "upd_index"
                /\ FileBytes(files', call[p].t)
                      = FileBytes(files, call[p].t) \o EncodeLine(call[p].cur)
                /\ \A t \in AllFiles \ {call[p].t} :
                      FileBytes(files', t) = FileBytes(files, t)
                /\ call'[p].offset = Len(FileBytes(files, call[p].t))
                /\ call'[p].cur = call[p].cur
          /\ (pc[p] = "upd_index" /\ pc'[p] # "upd_index") =>
                /\ pc'[p] = "done" /\ ret'[p].err = ""
                /\ Indexes'[call[p].t][call[p].id] = call[p].offset
                /\ BytesAt(call[p].t, call[p].offset, Len(EncodeLine(call[p].cur)))
                      = EncodeLine(call[p].cur)
                /\ files' = files
          /\ (call[p].op = "update" /\ pc[p] # "done" /\ pc'[p] = "done"
                 /\ ret'[p].err = "") => pc[p] = "upd_index"]_vars

(* An update by two column names of a three-field row with flag "0" has    *)
(* returned success on a two-column table: the log holds the old record    *)
(* and then the new one, with the key replaced, the flag "1" and the       *)
(* value replaced, and the Index entry of the old key is its offset.       *)
C20_Witness ==
    /\ pc[1] = "done" /\ call[1].op = "update" /\ ret[1].err = ""
    /\ Len(call[1].updates) = 2
    /\ Len(Written("tx")) = 2
    /\ Written("tx")[1].row = <<KeyA, Flag0, ValX>>
    /\ Written("tx")[2].row = <<KeyB, Flag1, ValY>>
    /\ Indexes["tx"][KeyA] = Written("tx")[2].off
    /\ FileBytes(files, "tx")
          = EncodeLine(<<KeyA, Flag0, ValX>>) \o EncodeLine(<<KeyB, Flag1, ValY>>)

(* No caller holds the storage mutex at a step that takes db.mu.           *)
LockOrder == \A p \in Procs : storageMutex[p] # "" => pc[p] \notin MuSteps

(* While a call is under way, some caller under way can take a step.       *)
NoLockDeadlock ==
    (\E p \in Procs : InCall(p)) => \E q \in Procs : Runnable(q)

(* C18: in every reachable state no caller holds the physical lock where   *)
(* it takes the logical lock, and some call under way can go on; and       *)
(* under fair scheduling every call under way eventually returns.          *)
C18_NoDeadlockAndTermination ==
    /\ [](LockOrder /\ NoLockDeadlock)
    /\ \A p \in Procs : InCall(p) ~> (pc[p] = "done")

(* Caller 1 holds db.mu inside createTable and waits for the storage       *)
(* mutex, which caller 2 holds inside AppendRow.                           *)
C18_Witness ==
    /\ pc[1] = "ct_file" /\ mu = 1 /\ storageMutex[1] = ""
    /\ pc[2] = "ins_append" /\ storageMutex[2] = "W"

(* Some name of updates matches no declared column.                        *)
HasUnmatched(columns, updates) ==
    \E u \in 1..Len(updates) :
        \A i \in 1..Len(columns) : ~EqualFold(ColumnName(columns[i]), updates[u][1])

(* Caller p's call is an update of a key that is in the Index of a          *)
(* registered table.                                                       *)
UpdateOfExisting(p) ==
    /\ call[p].op = "update"
    /\ call[p].t \in DOMAIN Tables /\ call[p].t \in DOMAIN Indexes
    /\ call[p].id \in DOMAIN Indexes[call[p].t]

(* C21: an update of an existing key in which some name matches no         *)
(* declared column never comes to its append or its Index update, and      *)
(* returns ValidationError.  The code violates the error class: when the   *)
(* stored row is shorter than the schema, or the table has no column, the  *)
(* update stops before the names are looked at.                            *)
C21_UnmatchedNameRejected ==
    \A p \in Procs :
        (UpdateOfExisting(p) /\ HasUnmatched(Tables[call[p].t], call[p].updates)) =>
            /\ pc[p] \notin {"upd_append", "upd_index"}
            /\ pc[p] = "done" => ret[p].err = "ValidationError"

(* C22: an update of an existing key whose names are all declared returns  *)
(* success, and the record it appended (the last of the log) has exactly   *)
(* columns+1 fields, whatever the length of the stored row.  The code      *)
(* violates it: a shorter row is not padded, the update fails.             *)
C22_UpdateNormalisesLength ==
    \A p \in Procs :
        (UpdateOfExisting(p) /\ pc[p] = "done"
            /\ ~HasUnmatched(Tables[call[p].t], call[p].updates)) =>
            /\ ret[p].err = ""
            /\ Len(Written(call[p].t)) > 0
            /\ Len(Written(call[p].t)[Len(Written(call[p].t))].row)
                  = Len(Tables[call[p].t]) + 1

(* Caller p's call is an update by the single name of the first declared   *)
(* column of its table.                                                    *)
FirstColumnUpdate(p) ==
    /\ call[p].op = "update"
    /\ call[p].t \in DOMAIN Tables
    /\ Len(Tables[call[p].t]) > 0
    /\ Len(call[p].updates) = 1
    /\ EqualFold(ColumnName(Tables[call[p].t][1]), call[p].updates[1][1])

(* C23: the step that ends update(T, k, {firstColumn: v}) leaves the key   *)
(* set of T's Index as it was, points k at the record just appended, whose *)
(* field 0 is v, and leaves every other entry, an entry of v included, as  *)
(* it was; no entry of v appears.                                          *)
C23_FirstColumnUpdateKeepsKeys ==
    [][\A p \in Procs :
         (pc[p] = "upd_index" /\ pc'[p] = "done" /\ FirstColumnUpdate(p)) =>
            LET t == call[p].t
                k == call[p].id
                v == call[p].updates[1][2]
                n == Len(Written(t))
            IN  /\ ret'[p].err = ""
                /\ DOMAIN Indexes'[t] = DOMAIN Indexes[t]
                /\ k \in DOMAIN Indexes'[t]
                /\ Indexes'[t][k] = Written(t)[n].off
                /\ Written(t)[n].row[1] = v
                /\ \A j \in DOMAIN Indexes[t] \ {k} : Indexes'[t][j] = Indexes[t][j]
                /\ (v \notin DOMAIN Indexes[t]) => (v \notin DOMAIN Indexes'[t])
      ]_vars

(* An update of key a has set the first column to b and returned, while b  *)
(* is a key of the table with a record of its own.                         *)
C23_Witness ==
    \E p \in Procs :
        /\ pc[p] = "done" /\ FirstColumnUpdate(p) /\ ret[p].err = ""
        /\ call[p].id = KeyA /\ call[p].updates[1][2] = KeyB
        /\ {KeyA, KeyB} \subseteq DOMAIN Indexes[call[p].t]
        /\ Indexes[call[p].t][KeyA] # Indexes[call[p].t][KeyB]
        /\ Written(call[p].t)[Len(Written(call[p].t))].off = Indexes[call[p].t][KeyA]
        /\ Written(call[p].t)[Len(Written(call[p].t))].row[1] = KeyB

(* C24: a delete(T, k) that succeeds appends one record, and only at its   *)
(* append step: the bytes added to the log are the encoding of the row a   *)
(* lookup(T, k) returns in that state with field 1 replaced by "0" and     *)
(* every other field kept; its last step removes k and only k from the     *)
(* Index of T and writes nothing.                                          *)
C24_DeleteAppendsTombstone ==
    [][\A p \in Procs :
         call[p].op = "delete" =>
            LET t == call[p].t
                k == call[p].id
                cur == FindByID(Indexes, Tables, files, t, k)
                n == Len(Written(t))
            IN  /\ (pc[p] = "del_append" /\ pc'[p] = "del_index") =>
                      /\ cur.err = ""
                      /\ Len(Written(t)') = n + 1
                      /\ \A u \in DOMAIN written \ {t} : written'[u] = written[u]
                      /\ LET row == Written(t)'[n + 1].row
                         IN  /\ Len(row) = Len(cur.val)
                             /\ row[2] = Flag0
                             /\ \A i \in (1..Len(row)) \ {2} : row[i] = cur.val[i]
                             /\ FileBytes(files', t) = FileBytes(files, t) \o EncodeLine(row)
                      /\ Indexes' = Indexes
                /\ (pc[p] = "del_index" /\ pc'[p] = "done") =>
                      /\ ret'[p].err = ""
                      /\ files' = files /\ written' = written
                      /\ t \in DOMAIN Indexes
                      /\ k \in DOMAIN Indexes[t]
                      /\ DOMAIN Indexes'[t] = DOMAIN Indexes[t] \ {k}
                      /\ \A j \in DOMAIN Indexes'[t] : Indexes'[t][j] = Indexes[t][j]
                      /\ \A u \in DOMAIN Indexes \ {t} : Indexes'[u] = Indexes[u]
                /\ (pc[p] \notin {"del_append", "idle"} /\ pc' # pc) => written' = written
      ]_vars

(* A delete of key a has returned: the last record of the log is a         *)
(* tombstone of three fields that keeps the value of the row it replaces,  *)
(* a is gone from the Index and b is still there.                          *)
C24_Witness ==
    \E p \in Procs :
        /\ pc[p] = "done" /\ call[p].op = "delete" /\ ret[p].err = ""
        /\ call[p].id = KeyA
        /\ LET w == Written(call[p].t)
           IN  /\ Len(w) >= 2
               /\ w[Len(w)].row = <<KeyA, Flag0, ValX>>
        /\ KeyA \notin DOMAIN Indexes[call[p].t]
        /\ KeyB \in DOMAIN Indexes[call[p].t]

(* The number of keys of index whose offset is below that of k.             *)
OffsetRank(index, k) == Cardinality({j \in DOMAIN index : index[j] < index[k]})

(* Every offset of the Index of t can be read.                             *)
AllRowsReadable(t) ==
    \A k \in DOMAIN Indexes[t] : ReadRow(files, t, Indexes[t][k]).err = ""

(* The position in the history of appends to t of the record at offset off *)
(* (0 when no append returned off).                                        *)
AppendPosition(t, off) ==
    IF \E i \in 1..Len(Written(t)) : Written(t)[i].off = off
    THEN CHOOSE i \in 1..Len(Written(t)) : Written(t)[i].off = off
    ELSE 0

(* C25: a scanAll(T) of a table with an Index, run with no other call in   *)
(* between, returns one row per key, the row of the key with i-1 offsets   *)
(* below its own at position i (ascending order of offsets, no two keys at *)
(* one offset), and the order of offsets is the order in which the indexed *)
(* records were appended; when the read of some indexed row fails it       *)
(* returns an error and no rows.                                           *)
C25_ScanInOffsetOrder ==
    \A p \in Procs :
        (pc[p] = "done" /\ call[p].op = "scanAll" /\ call[p].t \in DOMAIN Indexes) =>
            LET t == call[p].t
                index == Indexes[t]
            IN  /\ \A j, k \in DOMAIN index : j # k => index[j] # index[k]
                /\ \A j, k \in DOMAIN index :
                      (index[j] < index[k] /\ AppendPosition(t, index[j]) > 0
                          /\ AppendPosition(t, index[k]) > 0) =>
                         AppendPosition(t, index[j]) < AppendPosition(t, index[k])
                /\ IF AllRowsReadable(t)
                   THEN /\ ret[p].err = ""
                        /\ Len(ret[p].val) = Cardinality(DOMAIN index)
                        /\ \A k \in DOMAIN index :
                              ret[p].val[OffsetRank(index, k) + 1] =
                                  SelectAllTruncate(ReadRow(files, t, index[k]).val,
                                                    t \in DOMAIN Tables,
                                                    IF t \in DOMAIN Tables
                                                    THEN Tables[t] ELSE <<>>)
                   ELSE /\ ret[p].err # ""
                        /\ ret[p].val = <<>>

(* A scanAll has returned the row of b before the row of a although a was  *)
(* written first: a was written again after b.                             *)
C25_Witness ==
    \E p \in Procs :
        /\ pc[p] = "done" /\ call[p].op = "scanAll" /\ ret[p].err = ""
        /\ Len(ret[p].val) = 2
        /\ ret[p].val[1][1] = KeyB /\ ret[p].val[2][1] = KeyA
        /\ Written(call[p].t)[1].row[1] = KeyA
        /\ Indexes[call[p].t][KeyB] < Indexes[call[p].t][KeyA]

(* The rows a scanAll(t) returns in the current state: the row of the key  *)
(* with i-1 lower offsets at position i.                                   *)
ScanRows(t) ==
    [i \in 1..Cardinality(DOMAIN Indexes[t]) |->
        LET k == CHOOSE k \in DOMAIN Indexes[t] : OffsetRank(Indexes[t], k) = i - 1
        IN  SelectAllTruncate(ReadRow(files, t, Indexes[t][k]).val,
                              t \in DOMAIN Tables,
                              IF t \in DOMAIN Tables THEN Tables[t] ELSE <<>>)]

(* The declared columns whose name is col, case ignored.                   *)
ColumnHits(columns, col) ==
    {i \in 1..Len(columns) : EqualFold(ColumnName(columns[i]), col)}

(* The field of a row for the first declared column named col: field 0 for *)
(* the first column, field i+1 for column i > 0 (fields counted from 0).   *)
ResolvedField(columns, col) ==
    LET i == CHOOSE i \in ColumnHits(columns, col) :
                 \A j \in ColumnHits(columns, col) : i <= j
    IN  IF i = 1 THEN 0 ELSE i

(* C26: a selectByColumn(T, col, value) that has returned failed with      *)
(* NotFoundError if T has no metadata, else with ColumnNotFoundError if    *)
(* col names no declared column, else (every indexed row being readable)   *)
(* returned the rows of scanAll(T), in their order, that have the resolved *)
(* field and hold there a value equal to value, case ignored.              *)
C26_SelectByColumnFilters ==
    \A p \in Procs :
        (pc[p] = "done" /\ call[p].op = "selectByColumn") =>
            LET t == call[p].t
                col == call[p].updates[1][1]
                value == call[p].updates[1][2]
            IN  IF t \notin DOMAIN Tables THEN ret[p].err = "NotFoundError"
                ELSE IF ColumnHits(Tables[t], col) = {}
                THEN ret[p].err = "ColumnNotFoundError"
                ELSE /\ t \in DOMAIN Indexes
                     /\ AllRowsReadable(t) =>
                           /\ ret[p].err = ""
                           /\ ret[p].val =
                                 SelectSeq(ScanRows(t), LAMBDA row :
                                     /\ ResolvedField(Tables[t], col) < Len(row)
                                     /\ EqualFold(row[ResolvedField(Tables[t], col) + 1],
                                                  value))

(* A selectByColumn by the second column, named in upper case, has         *)
(* returned the two rows whose value differs from the one asked for by     *)
(* case only, in the order of their offsets, and not the third row.        *)
C26_Witness ==
    \E p \in Procs :
        /\ pc[p] = "done" /\ call[p].op = "selectByColumn" /\ ret[p].err = ""
        /\ call[p].updates[1] = <<<<"V">>, KeyB>>
        /\ Cardinality(DOMAIN Indexes[call[p].t]) >= 2
        /\ Len(ret[p].val) = 2
        /\ ret[p].val[1][3] # ret[p].val[2][3]

(* C27: a createTable of an unregistered name whose log exists does not    *)
(* fail.  The step that follows the refused file creation leaves the name  *)
(* registered with the columns given and its Index equal to the full       *)
(* replay of the log, and a lookup of a key of that Index whose offset is  *)
(* that of an appended record returns that record (cut to the schema); the *)
(* call then returns without error.                                        *)
C27_OrphanLogReplayed ==
    [][\A p \in Procs :
         LET t == call[p].t
         IN  /\ (pc[p] = "ct_orphan" /\ pc'[p] = "ct_save") =>
                   /\ t \in DOMAIN files
                   /\ t \in DOMAIN Tables' /\ Tables'[t] = call[p].cols
                   /\ t \in DOMAIN Indexes'
                   /\ Indexes'[t] = RebuildIndexLoop(ScanLines(files[t]), EmptyIndex, 0)
                   /\ \A k \in DOMAIN Indexes'[t] :
                         LET i == AppendPosition(t, Indexes'[t][k])
                         IN  (i > 0 /\ CleanRow(Written(t)[i].row)) =>
                                FindByID(Indexes', Tables', files', t, k) =
                                    Ok(TruncateRow(Written(t)[i].row, TRUE, Tables'[t]))
             /\ (pc[p] = "ct_save" /\ pc'[p] = "done") => ret'[p].err = ""
      ]_vars

(* A createTable has returned without error for a name whose log held      *)
(* records before the call registered it: the Index has the live key b at  *)
(* a non-zero offset, and key a, deleted in the log, is absent.            *)
C27_Witness ==
    \E p \in Procs :
        /\ pc[p] = "done" /\ call[p].op = "createTable" /\ ret[p].err = ""
        /\ call[p].t \in DOMAIN metaFile
        /\ Len(Written(call[p].t)) >= 2
        /\ KeyB \in DOMAIN Indexes[call[p].t]
        /\ Indexes[call[p].t][KeyB] > 0
        /\ KeyA \notin DOMAIN Indexes[call[p].t]
        /\ \E i \in 1..Len(Written(call[p].t)) :
              Written(call[p].t)[i].row[1] = KeyA /\ Written(call[p].t)[i].row[2] = Flag0

(* The table of caller p's call is registered in memory while the metadata *)
(* file does not list it: the save that followed its registration failed.  *)
Unsaved(p) ==
    /\ call[p].t \in DOMAIN Tables
    /\ call[p].t \notin DOMAIN metaFile

(* C28: a createTable whose save of the metadata fails returns an error    *)
(* and leaves Tables and Indexes as they are, the name registered in both. *)
(* On a table left so, a createTable of the name is refused with           *)
(* AlreadyExistsError without any change, a lookup of an indexed key       *)
(* returns its row and an insert enters its key.  A createTable whose file *)
(* creation fails otherwise than by "already exists" returns an error and  *)
(* leaves the name in neither Tables nor Indexes.                          *)
C28_CreateTableFailures ==
    [][\A p \in Procs :
         LET t == call[p].t
         IN  /\ (pc[p] = "ct_save" /\ pc'[p] = "done" /\ ret'[p].err # "") =>
                   /\ Tables' = Tables /\ Indexes' = Indexes
                   /\ t \in DOMAIN Tables /\ t \in DOMAIN Indexes
                   /\ Tables[t] = call[p].cols
             /\ (pc[p] = "ct_lock" /\ pc' # pc /\ Unsaved(p)) =>
                   /\ pc'[p] = "done" /\ ret'[p].err = "AlreadyExistsError"
                   /\ Tables' = Tables /\ Indexes' = Indexes
             /\ (pc[p] = "fb_read" /\ pc'[p] = "done" /\ call[p].op = "lookup"
                     /\ Unsaved(p)) =>
                   /\ ret'[p].err = ""
                   /\ ret'[p].val[1] = call[p].id
             /\ (pc[p] = "ins_index" /\ pc'[p] = "done" /\ Unsaved(p)) =>
                   /\ ret'[p].err = ""
                   /\ call[p].row[1] \in DOMAIN Indexes'[t]
                   /\ FindByID(Indexes', Tables', files', t, call[p].row[1]).err = ""
             /\ (pc[p] = "ct_file" /\ pc'[p] = "done") =>
                   /\ ret'[p].err # ""
                   /\ t \notin DOMAIN Tables' /\ t \notin DOMAIN Indexes'
                   /\ \A u \in DOMAIN Tables \ {t} :
                         u \in DOMAIN Tables' /\ Tables'[u] = Tables[u]
                   /\ \A u \in DOMAIN Indexes \ {t} :
                         u \in DOMAIN Indexes' /\ Indexes'[u] = Indexes[u]
      ]_vars

(* A lookup has returned the row of a key inserted into a table whose      *)
(* createTable returned an error from the save of the metadata (no other   *)
(* table is registered whose save could have emptied the file).            *)
C28_Witness ==
    \E p \in Procs :
        /\ pc[p] = "done" /\ call[p].op = "lookup" /\ ret[p].err = ""
        /\ Unsaved(p)
        /\ "ty" \notin DOMAIN Tables
        /\ Len(ret[p].val) = Len(Tables[call[p].t]) + 1

(* The total encoded length of the records appended to t before record i. *)
RECURSIVE EncodedBefore(_, _)
EncodedBefore(t, i) ==
    IF i <= 1 THEN 0
    ELSE EncodedBefore(t, i - 1) + Len(EncodeLine(Written(t)[i - 1].row))

(* The running offsets of a replay: the offset it holds at each line.      *)
RECURSIVE RunningOffsets(_, _)
RunningOffsets(lines, offset) ==
    IF lines = <<>> THEN <<>>
    ELSE <<offset>> \o RunningOffsets(Tail(lines), offset + Len(Head(lines)) + 1)

(* The replay of the log of t comes to the first line of record i with a   *)
(* running offset equal to the offset the append of the record returned.   *)
RecordReplayedAt(t, i) ==
    LET lines == ScanLines(FileBytes(files, t))
        offs == RunningOffsets(lines, 0)
        first == ScanLines(EncodeLine(Written(t)[i].row))[1]
    IN  \E j \in 1..Len(lines) : lines[j] = first /\ offs[j] = Written(t)[i].off

(* Some field of the row holds a carriage return directly before a newline.*)
HasCRNL(row) ==
    \E f \in 1..Len(row) : \E i \in 1..(Len(row[f]) - 1) :
        row[f][i] = CR /\ row[f][i + 1] = NL

(* The offsets the appends to each table returned are strictly increasing  *)
(* and each is the total encoded length of the records appended before it; *)
(* a returned append holds the offset of a record of its row.              *)
AppendOffsetsSerial ==
    /\ \A t \in DOMAIN written : \A i \in 1..Len(written[t]) :
          /\ written[t][i].off = EncodedBefore(t, i)
          /\ i > 1 => written[t][i - 1].off < written[t][i].off
    /\ \A p \in Procs :
          (pc[p] = "done" /\ call[p].op = "appendRow") =>
              /\ ret[p].err = ""
              /\ \E i \in 1..Len(Written(call[p].t)) :
                    /\ Written(call[p].t)[i].off = ret[p].off
                    /\ Written(call[p].t)[i].row = call[p].row

(* C29 as stated: the offsets are serial, and the replay assigns to every  *)
(* record the offset its append returned.                                  *)
C29_AsStated ==
    /\ AppendOffsetsSerial
    /\ \A t \in DOMAIN written : \A i \in 1..Len(written[t]) : RecordReplayedAt(t, i)

(* C29, amended: the offsets are serial under concurrent appends to one    *)
(* or to several tables, and the replay assigns to a record the offset its *)
(* append returned when no record appended to the table before it holds a  *)
(* carriage return directly before a newline inside a field.               *)
C29_OffsetsSerialAndReplayed ==
    /\ AppendOffsetsSerial
    /\ \A t \in DOMAIN written : \A i \in 1..Len(written[t]) :
          (\A j \in 1..(i - 1) : ~HasCRNL(written[t][j].row)) => RecordReplayedAt(t, i)

(* One caller is between the read of the size and the write of an append   *)
(* at a non-zero offset while the other waits for the mutex to append to   *)
(* the same table.                                                         *)
C29_Witness ==
    \E p, q \in Procs :
        /\ p # q
        /\ pc[p] = "st_write" /\ pc[q] = "st_append"
        /\ call[p].t = call[q].t
        /\ call[p].offset > 0
        /\ call[p].offset = EncodedBefore(call[p].t, Len(Written(call[p].t)) + 1)

(* C30 as stated: in every reachable state the names with an Index are the *)
(* names with Metadata.                                                    *)
C30_AsStated == DOMAIN Indexes = DOMAIN Tables

(* C30, amended: every name with Metadata has an Index; a step that gives  *)
(* a name Metadata gives it an Index too, and a step that gives a name an  *)
(* Index without Metadata is the Index update of an insert into that name  *)
(* or a rebuild of its Index.                                              *)
C30_MetadataHasIndex ==
    [][/\ DOMAIN Tables \subseteq DOMAIN Indexes
       /\ DOMAIN Tables' \subseteq DOMAIN Indexes'
       /\ \A t \in (DOMAIN Indexes' \ DOMAIN Indexes) \ DOMAIN Tables' :
             \E p \in Procs :
                 /\ pc[p] \in {"ins_index", "rb_lock"} /\ pc'[p] = "done"
                 /\ call[p].t = t
      ]_vars

(* An insert into a name that was never registered has returned: the name  *)
(* has an Index with the key and no Metadata, and nothing was ever saved.  *)
C30_Witness ==
    \E p \in Procs :
        /\ pc[p] = "done" /\ call[p].op = "insert" /\ ret[p].err = ""
        /\ call[p].t \in DOMAIN Indexes
        /\ call[p].t \notin DOMAIN Tables
        /\ call[p].row[1] \in DOMAIN Indexes[call[p].t]
        /\ metaFile = <<>>

(* C31: once a delete(T, k) has returned, and while no insert or update of  *)
(* k has been started since, the Index a restart builds by replaying the   *)
(* log of T has no entry for k, and a lookup of k after the restart fails  *)
(* with NotFoundError.  Stated for histories of clean engine rows; the     *)
(* code violates it.                                                       *)
C31_DeleteSurvivesRestart ==
    CleanHistory =>
        \A d \in deleted :
            LET recovered == RecoverIndexes(metaFile, files)
            IN  /\ (d[1] \in DOMAIN recovered) => (d[2] \notin DOMAIN recovered[d[1]])
                /\ FindByID(recovered, metaFile, files, d[1], d[2]).err = "NotFoundError"

(* The Index each of the three replays computes for the log of t from an   *)
(* empty Index.                                                            *)
ByLoadIndex(t) == LoadIndexLoop(ScanLines(FileBytes(files, t)), EmptyIndex, 0)
ByRebuildIndex(t) == RebuildIndexLoop(ScanLines(FileBytes(files, t)), EmptyIndex, 0)
ByCreateTable(t) == CreateTableLoop(ScanLines(FileBytes(files, t)), EmptyIndex, 0)

(* C32: on every log the three replays started from an empty Index give   *)
(* the same Index.  A rebuildIndex leaves the Index the other two replays  *)
(* compute from an empty Index, whatever the Index held before, and a      *)
(* second rebuildIndex would change nothing; the orphan path of            *)
(* createTable and the recovery at a restart (every step that leaves all   *)
(* callers idle and is not the end of a returned call) leave the Index the *)
(* other replays compute.                                                  *)
C32_ReplaysAgree ==
    [][/\ \A t \in DOMAIN files :
             /\ ByLoadIndex(t) = ByRebuildIndex(t)
             /\ ByRebuildIndex(t) = ByCreateTable(t)
       /\ \A p \in Procs :
             LET t == call[p].t
             IN  /\ (pc[p] = "rb_lock" /\ pc'[p] = "done") =>
                       /\ Indexes'[t] = ByLoadIndex(t)
                       /\ Indexes'[t] = ByCreateTable(t)
                       /\ RebuildIndex(Indexes', files', t) = Indexes'
                       /\ \A u \in DOMAIN Indexes \ {t} : Indexes'[u] = Indexes[u]
                 /\ (pc[p] = "ct_orphan" /\ pc'[p] = "ct_save") =>
                       /\ Indexes'[t] = ByLoadIndex(t)
                       /\ Indexes'[t] = ByRebuildIndex(t)
       /\ ((\A p \in Procs : pc'[p] = "idle")
              /\ ~(\E p \in Procs : pc[p] = "done" /\ Indexes' = Indexes
                                      /\ Tables' = Tables)) =>
             \A t \in DOMAIN metaFile :
                 /\ t \in DOMAIN Indexes'
                 /\ Indexes'[t] = ByRebuildIndex(t)
                 /\ Indexes'[t] = ByCreateTable(t)
      ]_vars

(* A rebuildIndex has returned on a log that holds the record of an insert *)
(* after earlier lines, among them a line of fewer than 2 fields or a line *)
(* with another flag: key c is in the Index at the offset of its record,   *)
(* which is not 0.                                                         *)
C32_Witness ==
    \E p \in Procs :
        /\ pc[p] = "done" /\ call[p].op = "rebuildIndex"
        /\ Len(Written("tx")) >= 1
        /\ <<"c">> \in DOMAIN Indexes["tx"]
        /\ Indexes["tx"][<<"c">>] > 0
        /\ \E line \in {<<"a">>, <<"b", Pipe, "2">>} :
              \E j \in 1..Len(ScanLines(files["tx"])) : ScanLines(files["tx"])[j] = line
        /\ Cardinality(DOMAIN Indexes["tx"]) >= 2

====
